---- MODULE Spec2Model ----
(***************************************************************************)
(* MindBot runtime core: inbound-message deduplication, the streaming      *)
(* reply controller, the Task Manager / Runtime Adapter pair and the       *)
(* Lifecycle Manager.  Each subsystem has its own specification over its   *)
(* own variables (SpecDedup, SpecStream, SpecRuntime, SpecLifecycle); the  *)
(* variables of the other subsystems stay unchanged.                       *)
(***************************************************************************)
EXTENDS Integers, Sequences, FiniteSets, TLC

VARIABLES
    \* ---- MindBotChatbotHandler: dedup cache and process() ----
    clock,            \* time.time(), in scaled seconds
    recent_messages,  \* self._recent_messages: dict in insertion order, <<[hash, ts]>>
    slot,             \* in-flight process() calls: [pc, msg, ack]
    msg_count,        \* callbacks delivered so far
    tracked,          \* the fingerprint the history below follows
    win_start,        \* time of the first message of the tracked fingerprint's window
    win_invoked,      \* downstream reply-path invocations in that window
    win_evicted,      \* the window's cache entry was dropped by capacity eviction
    \* ---- MindBotChatbotHandler: concurrent process() calls ----
    lookup,           \* the latest _is_duplicate_message call: number, hash, result
    th_passed,        \* per fingerprint: calls past the lookup, not yet recorded
    sess_creating,    \* per fingerprint: calls awaiting the creation of their card
    sess_active,      \* per fingerprint: cards created, terminal update not yet sent
    \* ---- MindBotChatbotHandler._process_streaming_response ----
    ss_pc,                \* where the call is
    has_dify,             \* agent_instance has a dify_client
    card_attempt,         \* create_card_with_dingtalk_stream: loop variable attempt
    card_sleeps,          \* the backoff delays it slept, in order
    card_instance_id,     \* the id it returned, or None
    stime,                \* time.time() - streaming_start_time, in half seconds
    delivered,            \* the chunks the generation stream has produced
    accumulated_content,
    last_update_length,
    last_update_time,
    cb,                   \* the running callback's current_length and current_time
    full_response,
    renderer_calls,       \* every async_streaming call, in order
    gen_calls,            \* calls of the generation collaborator
    gen_outcome,          \* how the generation stream ended: complete, raise, timeout
    static_replies,       \* calls of _smart_reply_static
    returned,             \* what _process_streaming_response returned
    \* ---- TaskManager and RuntimeAdapter ----
    rt_now,               \* datetime.now(), in units of five minutes
    tasks,                \* TaskManager.tasks: the keys of the registry
    task_counter,         \* TaskManager.task_counter
    atasks,               \* every asyncio task created so far, with its wrapper's fields
    is_running,           \* RuntimeAdapter.is_running
    is_enabled,           \* RuntimeAdapter.is_enabled
    start_time,           \* RuntimeAdapter.start_time, NoTime for None
    last_heartbeat,       \* RuntimeAdapter.last_heartbeat, NoTime for None
    task_wrapper,         \* RuntimeAdapter.task_wrapper, <<>> for None
    hooks,                \* the hook methods the wrapped adapter_instance has
    ctl,                  \* where the caller of stop()/restart() is
    rt_event,             \* the operation the latest step performed
    rs,                   \* restart() in progress: what it has done so far
    \* ---- LifecycleManager ----
    lc_now,               \* datetime.now()
    components,           \* the keys of self.components, in registration order
    component_status,     \* self.component_status
    stage_handlers,       \* how many handlers each stage has
    shutdown_handlers,    \* how many shutdown handlers there are
    is_initialized,
    is_shutting_down,
    lc_pc,                \* where initialize() is
    lc_stage,             \* initialize(): index of the loop variable stage
    lc_idx,               \* _execute_stage: position in the handlers / components
    stage_components,     \* _execute_stage: stage_components
    lc_result,            \* what initialize() returned
    sd_pc,                \* where shutdown() is
    sd_idx,               \* shutdown(): position in the handlers / components
    lc_failure,           \* a stage handler or a component hook has raised
    sd_calls,             \* calls of shutdown() so far
    sd_log,               \* the shutdown handlers and component hooks shutdown() ran
    sd_out,               \* how each of them ended, in the same order
    \* ---- EventBus ----
    bus_running,          \* EventBus.is_running
    event_queue,          \* self.event_queue: the types of the queued events
    subscribers,          \* self.subscribers
    event_handlers,       \* the keys of self.event_handlers
    loops,                \* the _process_events tasks start() created
    published,            \* publish() calls so far
    bus_hist,             \* whether a handler raised during an earlier event
    \* ---- MultiInstanceDingTalkHandler / WeComHandler: message_semaphore ----
    sem_value,            \* permits the semaphore has left
    sem_msgs,             \* where each inbound message is
    \* ---- EnhancedMultiPlatformManager ----
    runtime_adapters,     \* self.runtime_adapters: the dict's entries, <<[id, obj, live]>>
    adapter_state,        \* every RuntimeAdapter object created so far
    total_adapters,       \* self.stats["total_adapters"]
    supervisor,           \* the task of _health_check_loop
    add_call,             \* the add_adapter call that has just returned, if any
    \* ---- MindBotDingTalkClient behind a RuntimeAdapter ----
    client_threads,       \* every threading.Thread start() created: alive or ended
    client_thread,        \* self.client_thread: the thread created last (0: None)
    client_running,       \* self.running
    \* ---- TaskManager.shutdown ----
    tm_shutdown           \* the shutdown() call: where it is and what it awaits

dedupVars == <<clock, recent_messages, slot, msg_count, tracked, win_start,
               win_invoked, win_evicted>>

streamVars == <<ss_pc, has_dify, card_attempt, card_sleeps, card_instance_id, stime,
                delivered, accumulated_content, last_update_length,
                last_update_time, cb, full_response, renderer_calls, gen_calls,
                gen_outcome, static_replies, returned>>

rtVars == <<rt_now, tasks, task_counter, atasks, is_running, is_enabled, start_time,
            last_heartbeat, task_wrapper, hooks, ctl, rt_event, rs>>

lcVars == <<lc_now, components, component_status, stage_handlers, shutdown_handlers,
            is_initialized, is_shutting_down, lc_pc, lc_stage, lc_idx,
            stage_components, lc_result, sd_pc, sd_idx, lc_failure, sd_calls,
            sd_log, sd_out>>

handlerVars == <<lookup, th_passed, sess_creating, sess_active>>

busVars == <<bus_running, event_queue, subscribers, event_handlers, loops, published,
             bus_hist>>

\* The subsystems around the runtime core
semVars == <<sem_value, sem_msgs>>

managerVars == <<runtime_adapters, adapter_state, total_adapters, supervisor,
                 add_call>>

clientVars == <<client_threads, client_thread, client_running>>

tmVars == <<tm_shutdown>>

extVars == <<busVars, semVars, managerVars, clientVars, tmVars>>

vars == <<dedupVars, handlerVars, streamVars, rtVars, lcVars, extVars>>

\* What each subsystem's actions leave alone
notDedup == <<handlerVars, streamVars, rtVars, lcVars, extVars>>
notStream == <<dedupVars, handlerVars, rtVars, lcVars, extVars>>
notRuntime == <<dedupVars, handlerVars, streamVars, lcVars, extVars>>
notLifecycle == <<dedupVars, handlerVars, streamVars, rtVars, extVars>>
notHandlers == <<streamVars, rtVars, lcVars, extVars>>
coreVars == <<dedupVars, handlerVars, streamVars, rtVars, lcVars>>
notBus == <<coreVars, semVars, managerVars, clientVars, tmVars>>
notSem == <<coreVars, busVars, managerVars, clientVars, tmVars>>
notManager == <<coreVars, busVars, semVars, clientVars, tmVars>>
\* What a step of the DingTalk client inside an adapter task leaves alone,
\* the Runtime Adapter aside
notRuntimeClient == <<dedupVars, handlerVars, streamVars, lcVars, busVars, semVars,
                      managerVars, tmVars>>
notClient == <<coreVars, busVars, semVars, managerVars, tmVars>>
\* What a step of TaskManager.shutdown leaves alone, the Task Manager aside
notRuntimeShutdown == <<dedupVars, handlerVars, streamVars, lcVars, busVars, semVars,
                        managerVars, clientVars>>

None == "None"

(***************************************************************************)
(* Dedup cache (src/src/dingtalk_client.py)                                *)
(***************************************************************************)

\* self._max_recent_messages (100 in the source), scaled for model checking
max_recent_messages == 4
\* self._message_ttl (300 s in the source), scaled for model checking
message_ttl == 2
\* Last value of the clock the model explores: one tick past the TTL
MaxClock == message_ttl + 1
\* Number of callbacks the model delivers: enough to overflow the cache and
\* to repeat a fingerprint afterwards
MaxMessages == max_recent_messages + 2

\* Inbound callbacks: message_id (None when the platform gives none), sender,
\* conversation and the text _extract_message_content returns ("" = nothing
\* processable).
Msg(id, user, conv, text) ==
    [message_id |-> id, user_id |-> user, conversation_id |-> conv, text |-> text]

Messages ==
    { Msg("m1", "u1", "c1", "hi"), Msg("m2", "u1", "c1", "hi"),
      Msg("m3", "u1", "c1", "hi"),
      Msg(None, "u1", "c1", "hi"), Msg(None, "u1", "c1", "yo"),
      Msg(None, "u1", "c1", "") }

\* _create_message_hash: SHA-256 of "user:conversation:text", modelled as an
\* injective digest of the three fields
create_message_hash(user, conv, text) == <<"sha256", user, conv, text>>

\* process, lines 218-223: the platform message id when there is one, else the hash
MessageHash(m) ==
    IF m.message_id # None
    THEN <<"id", m.message_id, "", "">>
    ELSE create_message_hash(m.user_id, m.conversation_id, m.text)

Fingerprints == { MessageHash(m) : m \in { x \in Messages : x.text # "" } }

\* The fingerprints the history variables may follow: one of each kind
TrackedChoices ==
    { MessageHash(Msg("m1", "u1", "c1", "hi")), MessageHash(Msg(None, "u1", "c1", "hi")) }

Keys(cache) == { cache[i].hash : i \in 1..Len(cache) }

Lookup(cache, h) == (CHOOSE i \in 1..Len(cache) : cache[i].hash = h)

Remove(cache, h) == SelectSeq(cache, LAMBDA e : e.hash # h)

\* _is_duplicate_message: the value it returns
IsDupExpiredTooMutant(cache, h, now) == h \in Keys(cache)

is_duplicate_message(cache, h, now) ==
    /\ h \in Keys(cache)
    /\ now - cache[Lookup(cache, h)].ts < message_ttl

LookupKeepsExpiredMutant(cache, h, now) == cache

\* _is_duplicate_message: the cache it leaves (an expired entry of h is deleted)
is_duplicate_cache(cache, h, now) ==
    IF h \in Keys(cache) /\ ~(now - cache[Lookup(cache, h)].ts < message_ttl)
    THEN Remove(cache, h)
    ELSE cache

\* dict[h] = now: an existing key keeps its position, a new key goes last
DictSet(cache, h, now) ==
    IF h \in Keys(cache)
    THEN [i \in 1..Len(cache) |->
            IF cache[i].hash = h THEN [hash |-> h, ts |-> now] ELSE cache[i]]
    ELSE Append(cache, [hash |-> h, ts |-> now])

\* sorted(items, key=timestamp, reverse=True): stable, so equal timestamps keep
\* their dict order
RECURSIVE SortedNewestFirst(_)
SortedNewestFirst(cache) ==
    IF cache = <<>> THEN <<>>
    ELSE LET top == CHOOSE i \in 1..Len(cache) :
                      /\ \A j \in 1..Len(cache) : cache[j].ts <= cache[i].ts
                      /\ \A j \in 1..(i-1) : cache[j].ts < cache[i].ts
             rest == [k \in 1..(Len(cache)-1) |->
                        IF k < top THEN cache[k] ELSE cache[k+1]]
         IN <<cache[top]>> \o SortedNewestFirst(rest)

EvictKeepsOldestMutant(cache) ==
    IF Len(cache) > max_recent_messages
    THEN SubSeq(SortedNewestFirst(cache), Len(cache) - max_recent_messages \div 2 + 1,
                Len(cache))
    ELSE cache

\* _add_recent_message, lines 987-995: capacity eviction down to half
EvictOverCapacity(cache) ==
    IF Len(cache) > max_recent_messages
    THEN SubSeq(SortedNewestFirst(cache), 1, max_recent_messages \div 2)
    ELSE cache

\* _add_recent_message, lines 976-985: insert, then sweep the expired entries
InsertAndSweep(cache, h, now) ==
    SelectSeq(DictSet(cache, h, now), LAMBDA e : ~(now - e.ts > message_ttl))

\* _add_recent_message: insert, sweep the expired entries, evict over capacity
add_recent_message(cache, h, now) == EvictOverCapacity(InsertAndSweep(cache, h, now))

Slots == {"s1"}

IdleSlot == [pc |-> "idle", msg |-> None, ack |-> None, invoked |-> FALSE]

DedupInit ==
    /\ clock = 0
    /\ recent_messages = <<>>
    /\ slot = [s \in Slots |-> IdleSlot]
    /\ msg_count = 0
    /\ tracked \in TrackedChoices
    /\ win_start = -1
    /\ win_invoked = 0
    /\ win_evicted = FALSE

\* time passes
Tick ==
    /\ clock < MaxClock
    /\ clock' = clock + 1
    /\ UNCHANGED <<recent_messages, slot, msg_count, tracked, win_start, win_invoked,
                   win_evicted, notDedup>>

\* process() is invoked with a callback (the previous call of the slot has
\* returned its acknowledgement) and awaits _extract_message_content
ProcessBegin(s, m) ==
    /\ slot[s].pc \in {"idle", "done"}
    /\ msg_count < MaxMessages
    /\ msg_count' = msg_count + 1
    /\ slot' = [slot EXCEPT ![s] = [pc |-> "extract", msg |-> m, ack |-> None,
                                     invoked |-> FALSE]]
    /\ UNCHANGED <<clock, recent_messages, tracked, win_start, win_invoked,
                   win_evicted, notDedup>>

\* process(), lines 211-213: nothing processable, acknowledged without dedup
ProcessNoContent(s) ==
    /\ slot[s].pc = "extract"
    /\ slot[s].msg.text = ""
    /\ slot' = [slot EXCEPT ![s].pc = "done",
                            ![s].ack = <<"STATUS_OK", "No processable content">>]
    /\ UNCHANGED <<clock, recent_messages, msg_count, tracked, win_start, win_invoked,
                   win_evicted, notDedup>>

\* The tracked fingerprint's window: it opens with the first message of the
\* fingerprint and with the first one that comes message_ttl or more after
\* the window's start.
OpensWindow(h) ==
    h = tracked /\ (win_start = -1 \/ clock - win_start >= message_ttl)

\* process(), lines 218-243: fingerprint, duplicate check, record, and the
\* call of the reply path; no await separates them
ProcessDedup(s) ==
    /\ slot[s].pc = "extract"
    /\ slot[s].msg.text # ""
    /\ LET h == MessageHash(slot[s].msg)
           dup == is_duplicate_message(recent_messages, h, clock)
           checked == is_duplicate_cache(recent_messages, h, clock)
           recorded == add_recent_message(checked, h, clock)
           cache2 == IF dup THEN checked ELSE recorded
           opens == OpensWindow(h)
       IN /\ recent_messages' = cache2
          /\ slot' = [slot EXCEPT
                 ![s].pc = IF dup THEN "done" ELSE "reply",
                 ![s].invoked = ~dup,
                 ![s].ack = IF dup
                            THEN <<"STATUS_OK", "Duplicate message acknowledged">>
                            ELSE None]
          /\ win_start' = IF opens THEN clock ELSE win_start
          /\ win_invoked' = IF h # tracked THEN win_invoked
                            ELSE (IF opens THEN 0 ELSE win_invoked)
                                 + (IF dup THEN 0 ELSE 1)
          /\ win_evicted' =
                \/ IF opens /\ ~dup THEN FALSE ELSE win_evicted
                \/ /\ ~dup
                   /\ tracked \in Keys(InsertAndSweep(checked, h, clock))
                   /\ tracked \notin Keys(recorded)
    /\ UNCHANGED <<clock, msg_count, tracked, notDedup>>

\* _process_streaming_response returns; process() acknowledges
ProcessReplyDone(s) ==
    /\ slot[s].pc = "reply"
    /\ slot' = [slot EXCEPT ![s].pc = "done",
                            ![s].ack = <<"STATUS_OK", "Message processed successfully">>]
    /\ UNCHANGED <<clock, recent_messages, msg_count, tracked, win_start, win_invoked,
                   win_evicted, notDedup>>

DedupNext ==
    \/ Tick
    \/ \E s \in Slots, m \in Messages : ProcessBegin(s, m)
    \/ \E s \in Slots : ProcessNoContent(s)
    \/ \E s \in Slots : ProcessDedup(s)
    \/ \E s \in Slots : ProcessReplyDone(s)

\* The dedup subsystem at rest, for the specifications of the other subsystems
DedupRest ==
    /\ clock = 0
    /\ recent_messages = <<>>
    /\ slot = [s \in Slots |-> IdleSlot]
    /\ msg_count = 0
    /\ tracked = MessageHash(Msg("m1", "u1", "c1", "hi"))
    /\ win_start = -1
    /\ win_invoked = 0
    /\ win_evicted = FALSE

(***************************************************************************)
(* Concurrent process() calls of one handler (src/src/dingtalk_client.py)  *)
(***************************************************************************)

\* Number of process() calls the threads of the model make
MaxCalls == 4

\* Number of reply paths the calls of one event loop have in progress at a time
MaxInFlight == 2

NoLookup == [n |-> 0, hash |-> None, result |-> FALSE, removed |-> FALSE]

HandlersIdle ==
    /\ lookup = NoLookup
    /\ th_passed = [h \in Fingerprints |-> 0]
    /\ sess_creating = [h \in Fingerprints |-> 0]
    /\ sess_active = [h \in Fingerprints |-> 0]

HandlersRest == HandlersIdle

\* The state a handler starts in, for the specifications of concurrent calls
HandlersInit ==
    /\ HandlersIdle
    /\ clock = 0
    /\ recent_messages = <<>>
    /\ slot = [s \in Slots |-> IdleSlot]
    /\ msg_count = 0
    /\ tracked = MessageHash(Msg("m1", "u1", "c1", "hi"))
    /\ win_start = -1
    /\ win_invoked = 0
    /\ win_evicted = FALSE

\* What _is_duplicate_message(h) did, as its caller and the cache saw it
Looked(h) ==
    [n |-> lookup.n + 1, hash |-> h,
     result |-> is_duplicate_message(recent_messages, h, clock),
     removed |-> is_duplicate_cache(recent_messages, h, clock) # recent_messages]

RECURSIVE Total(_, _)
Total(count, hashes) ==
    IF hashes = {} THEN 0
    ELSE LET h == CHOOSE x \in hashes : TRUE
         IN count[h] + Total(count, hashes \ {h})

\* Reply paths in progress: cards being created and sessions streaming
InFlight == Total(sess_creating, Fingerprints) + Total(sess_active, Fingerprints)

\* time passes between the steps of concurrent calls
HandlerTick ==
    /\ clock < MaxClock
    /\ clock' = clock + 1
    /\ UNCHANGED <<recent_messages, slot, msg_count, tracked, win_start, win_invoked,
                   win_evicted, handlerVars, notHandlers>>

\* process() called on one of several threads, lines 218-228: the fingerprint
\* and _is_duplicate_message, which takes and releases self._dedup_lock
ThreadCheck(m) ==
    /\ lookup.n < MaxCalls
    /\ m.text # ""
    /\ LET h == MessageHash(m) IN
       /\ lookup' = Looked(h)
       /\ recent_messages' = is_duplicate_cache(recent_messages, h, clock)
       /\ th_passed' = IF is_duplicate_message(recent_messages, h, clock)
                       THEN th_passed
                       ELSE [th_passed EXCEPT ![h] = @ + 1]
    /\ UNCHANGED <<clock, slot, msg_count, tracked, win_start, win_invoked,
                   win_evicted, sess_creating, sess_active, notHandlers>>

\* line 231 of a call that passed the lookup: _add_recent_message, which takes
\* self._dedup_lock again
ThreadRecord(h) ==
    /\ th_passed[h] > 0
    /\ recent_messages' = add_recent_message(recent_messages, h, clock)
    /\ th_passed' = [th_passed EXCEPT ![h] = @ - 1]
    /\ UNCHANGED <<clock, slot, msg_count, tracked, win_start, win_invoked,
                   win_evicted, lookup, sess_creating, sess_active, notHandlers>>

\* process() called on the handler's event loop, lines 218-243 and 335: no
\* await separates the lookup, the record and the call of the reply path,
\* which suspends in create_card_with_dingtalk_stream
Deliver(m) ==
    /\ msg_count < MaxMessages
    /\ InFlight < MaxInFlight
    /\ m.text # ""
    /\ msg_count' = msg_count + 1
    /\ LET h == MessageHash(m)
           dup == is_duplicate_message(recent_messages, h, clock)
           checked == is_duplicate_cache(recent_messages, h, clock)
       IN /\ recent_messages' = IF dup THEN checked
                                ELSE add_recent_message(checked, h, clock)
          /\ sess_creating' = IF dup THEN sess_creating
                              ELSE [sess_creating EXCEPT ![h] = @ + 1]
    /\ UNCHANGED <<clock, slot, tracked, win_start, win_invoked, win_evicted,
                   lookup, th_passed, sess_active, notHandlers>>

\* lines 335-337 and 364-377: the card of a call has been created, its
\* streaming session is in progress
SessionCardCreated(h) ==
    /\ sess_creating[h] > 0
    /\ sess_creating' = [sess_creating EXCEPT ![h] = @ - 1]
    /\ sess_active' = [sess_active EXCEPT ![h] = @ + 1]
    /\ UNCHANGED <<dedupVars, lookup, th_passed, notHandlers>>

\* lines 337-362: no card, the call answers with a static reply and returns
SessionCardFailed(h) ==
    /\ sess_creating[h] > 0
    /\ sess_creating' = [sess_creating EXCEPT ![h] = @ - 1]
    /\ UNCHANGED <<dedupVars, lookup, th_passed, sess_active, notHandlers>>

\* lines 443-505: the terminal update of a session has been sent
SessionTerminalUpdate(h) ==
    /\ sess_active[h] > 0
    /\ sess_active' = [sess_active EXCEPT ![h] = @ - 1]
    /\ UNCHANGED <<dedupVars, lookup, th_passed, sess_creating, notHandlers>>

\* process() calls of several threads
ThreadsNext ==
    \/ HandlerTick
    \/ \E m \in Messages : ThreadCheck(m)
    \/ \E h \in Fingerprints : ThreadRecord(h)

\* process() calls of the tasks of one event loop, and their sessions
SessionsNext ==
    \/ HandlerTick
    \/ \E m \in Messages : Deliver(m)
    \/ \E h \in Fingerprints : SessionCardCreated(h)
    \/ \E h \in Fingerprints : SessionCardFailed(h)
    \/ \E h \in Fingerprints : SessionTerminalUpdate(h)

(***************************************************************************)
(* Streaming reply controller (src/src/dingtalk_client.py)                 *)
(***************************************************************************)

\* STREAMING_MAX_RETRIES
STREAMING_MAX_RETRIES == 3
\* STREAMING_RETRY_DELAY, in seconds
STREAMING_RETRY_DELAY == 1
\* FLUID_STREAMING_MIN_CHUNK
FLUID_STREAMING_MIN_CHUNK == 10
\* len(content_value) >= 5
LongChunkLength == 5
\* max_update_interval = 0.5 s, in half seconds
max_update_interval == 1
\* max_streaming_duration = 120 s, in half seconds
max_streaming_duration == 240
\* Number of chunks a generation stream of the model produces at most
MaxChunks == 3
\* Half-second ticks the model counts one by one before a stall: enough for
\* the time-based flush
MaxTicks == max_update_interval

\* Texts are sequences of characters
Hello == <<"H", "e", "l", "l", "o", " ">>
Bang == <<"!">>
Abcd == <<"a", "b", "c", "d">>

\* The chunks a generation stream is made of
Chunks == {Hello, Bang, Abcd}

\* The two user-facing apology strings (one token each)
Apology == <<"I'm sorry, I encountered an error processing your message.">>
TimeoutMessage == <<"I'm sorry, the response took too long. Please try again.">>

RECURSIVE Concat(_)
Concat(chunks) ==
    IF chunks = <<>> THEN <<>> ELSE Head(chunks) \o Concat(Tail(chunks))

\* str.endswith(('.', '!', '?', '\n', ','))
EndsWithPunctuation(chunk) ==
    /\ Len(chunk) > 0
    /\ chunk[Len(chunk)] \in {".", "!", "?", "\n", ","}

\* fluid_streaming_callback, lines 395-400
should_update(current_length, content_value, current_time) ==
    \/ current_length - last_update_length >= FLUID_STREAMING_MIN_CHUNK
    \/ EndsWithPunctuation(content_value)
    \/ current_time - last_update_time >= max_update_interval
    \/ Len(content_value) >= LongChunkLength

\* One async_streaming call as the renderer sees it
RendererCall(content, finished, failed, outcome) ==
    [content |-> content, finished |-> finished, failed |-> failed,
     outcome |-> outcome]

IsTerminal(call) == call.finished \/ call.failed

TerminalCalls == SelectSeq(renderer_calls, IsTerminal)

StreamIdle ==
    /\ ss_pc = "idle"
    /\ card_attempt = 0
    /\ card_sleeps = <<>>
    /\ card_instance_id = None
    /\ stime = 0
    /\ delivered = <<>>
    /\ accumulated_content = <<>>
    /\ last_update_length = 0
    /\ last_update_time = 0
    /\ cb = [current_length |-> 0, current_time |-> 0]
    /\ full_response = <<>>
    /\ renderer_calls = <<>>
    /\ gen_calls = 0
    /\ gen_outcome = None
    /\ static_replies = 0
    /\ returned = None

StreamInit == has_dify \in BOOLEAN /\ StreamIdle

StreamRest == has_dify = TRUE /\ StreamIdle

\* _process_streaming_response is called: create_card_with_dingtalk_stream
StreamBegin ==
    /\ ss_pc = "idle"
    /\ ss_pc' = "create"
    /\ UNCHANGED <<gen_outcome, has_dify, card_attempt, card_sleeps, card_instance_id, stime,
                   delivered, accumulated_content, last_update_length,
                   last_update_time, cb, full_response, renderer_calls, gen_calls,
                   static_replies, returned>>
    /\ UNCHANGED notStream

\* create_card_with_dingtalk_stream, lines 145-167: one pass of the retry loop.
\* outcome: "id" (an id came back), "none" (no id), "raise".  When the id
\* comes back the function returns and its loop state is gone.
CardAttempt(outcome) ==
    /\ ss_pc = "create"
    /\ card_attempt < STREAMING_MAX_RETRIES
    /\ card_attempt' = IF outcome = "id" THEN 0 ELSE card_attempt + 1
    /\ card_instance_id' = IF outcome = "id" THEN "card" ELSE None
    /\ card_sleeps' = CASE outcome = "id" -> <<>>
                        [] outcome = "raise" /\ card_attempt < STREAMING_MAX_RETRIES - 1
                             -> Append(card_sleeps, STREAMING_RETRY_DELAY * (card_attempt + 1))
                        [] OTHER -> card_sleeps
    /\ ss_pc' = IF outcome = "id"
                THEN (IF has_dify THEN "gen" ELSE "agent")
                ELSE IF card_attempt + 1 < STREAMING_MAX_RETRIES
                     THEN "create"
                     ELSE (IF has_dify THEN "fallback_gen" ELSE "fallback_agent")
    /\ UNCHANGED <<gen_outcome, has_dify, stime, delivered, accumulated_content,
                   last_update_length, last_update_time, cb, full_response,
                   renderer_calls, gen_calls, static_replies, returned>>
    /\ UNCHANGED notStream

\* lines 340-355: no card, one call of the generation collaborator whose chunks
\* are ignored.  text = None: it raised
FallbackGenerate(text) ==
    /\ ss_pc = "fallback_gen"
    /\ gen_calls' = gen_calls + 1
    /\ full_response' = IF text = None THEN Apology ELSE text
    /\ ss_pc' = "fallback_reply"
    /\ UNCHANGED <<gen_outcome, has_dify, card_attempt, card_sleeps, card_instance_id, stime,
                   delivered, accumulated_content, last_update_length,
                   last_update_time, cb, renderer_calls, static_replies, returned>>
    /\ UNCHANGED notStream

\* lines 356-358: no card and no dify_client, agent_handler answers.
\* response = None: it raised, which the handler at line 508 catches
FallbackAgent(response) ==
    /\ ss_pc = "fallback_agent"
    /\ gen_calls' = gen_calls + 1
    /\ IF response = None
       THEN /\ ss_pc' = "done"
            /\ returned' = Apology
            /\ UNCHANGED full_response
       ELSE /\ ss_pc' = "fallback_reply"
            /\ full_response' = IF response # <<>> THEN response ELSE Apology
            /\ UNCHANGED returned
    /\ UNCHANGED <<gen_outcome, has_dify, card_attempt, card_sleeps, card_instance_id, stime,
                   delivered, accumulated_content, last_update_length,
                   last_update_time, cb, renderer_calls, static_replies>>
    /\ UNCHANGED notStream

\* lines 360-362: the single non-streaming reply; when it raises, line 508
FallbackReply(ok) ==
    /\ ss_pc = "fallback_reply"
    /\ static_replies' = static_replies + 1
    /\ returned' = IF ok THEN full_response ELSE Apology
    /\ ss_pc' = "done"
    /\ UNCHANGED <<gen_outcome, has_dify, card_attempt, card_sleeps, card_instance_id, stime,
                   delivered, accumulated_content, last_update_length,
                   last_update_time, cb, full_response, renderer_calls, gen_calls>>
    /\ UNCHANGED notStream

\* time passes while the call awaits the generation stream or the renderer
StreamTick ==
    /\ ss_pc \in {"gen", "cb_update"}
    /\ stime < MaxTicks
    /\ stime' = stime + 1
    /\ UNCHANGED <<gen_outcome, ss_pc, has_dify, card_attempt, card_sleeps, card_instance_id,
                   delivered, accumulated_content, last_update_length,
                   last_update_time, cb, full_response, renderer_calls, gen_calls,
                   static_replies, returned>>
    /\ UNCHANGED notStream

\* chunk delivery stalls past max_streaming_duration
StreamStall ==
    /\ ss_pc \in {"gen", "cb_update"}
    /\ stime <= max_streaming_duration
    /\ stime' = max_streaming_duration + 1
    /\ UNCHANGED <<gen_outcome, ss_pc, has_dify, card_attempt, card_sleeps, card_instance_id,
                   delivered, accumulated_content, last_update_length,
                   last_update_time, cb, full_response, renderer_calls, gen_calls,
                   static_replies, returned>>
    /\ UNCHANGED notStream

\* fluid_streaming_callback, line 385
CallbackTimedOut == stime > max_streaming_duration

GenChunkOverwritesContentMutant(chunk) ==
    /\ ss_pc = "gen"
    /\ Len(delivered) < MaxChunks
    /\ delivered' = Append(delivered, chunk)
    /\ gen_calls' = IF delivered = <<>> /\ gen_calls = 0 THEN 1 ELSE gen_calls
    /\ IF CallbackTimedOut
       THEN UNCHANGED <<ss_pc, accumulated_content, cb>>
       ELSE /\ accumulated_content' = chunk
            /\ cb' = [current_length |-> Len(chunk), current_time |-> stime]
            /\ ss_pc' = IF should_update(Len(chunk), chunk, stime)
                        THEN "cb_update" ELSE "gen"
    /\ UNCHANGED <<gen_outcome, has_dify, card_attempt, card_sleeps, card_instance_id, stime,
                   last_update_length, last_update_time, full_response,
                   renderer_calls, static_replies, returned>>
    /\ UNCHANGED notStream

\* The generation stream delivers a chunk: fluid_streaming_callback up to its
\* first await (lines 383-404)
GenChunk(chunk) ==
    /\ ss_pc = "gen"
    /\ Len(delivered) < MaxChunks
    /\ delivered' = Append(delivered, chunk)
    /\ gen_calls' = IF delivered = <<>> /\ gen_calls = 0 THEN 1 ELSE gen_calls
    /\ IF CallbackTimedOut
       THEN UNCHANGED <<ss_pc, accumulated_content, cb>>
       ELSE LET acc == accumulated_content \o chunk IN
            /\ accumulated_content' = acc
            /\ cb' = [current_length |-> Len(acc), current_time |-> stime]
            /\ ss_pc' = IF should_update(Len(acc), chunk, stime)
                        THEN "cb_update" ELSE "gen"
    /\ UNCHANGED <<gen_outcome, has_dify, card_attempt, card_sleeps, card_instance_id, stime,
                   last_update_length, last_update_time, full_response,
                   renderer_calls, static_replies, returned>>
    /\ UNCHANGED notStream

PartialUpdateRecordsEveryFlushMutant(outcome) ==
    /\ ss_pc = "cb_update"
    /\ renderer_calls' = Append(renderer_calls,
                                RendererCall(accumulated_content, FALSE, FALSE, outcome))
    /\ last_update_length' = cb.current_length
    /\ last_update_time' = cb.current_time
    /\ ss_pc' = "gen"
    /\ UNCHANGED <<gen_outcome, has_dify, card_attempt, card_sleeps, card_instance_id, stime,
                   delivered, accumulated_content, cb, full_response, gen_calls,
                   static_replies, returned>>
    /\ UNCHANGED notStream

\* fluid_streaming_callback, lines 406-426: the partial update.
\* outcome: "true", "false", "raise" (caught by the callback)
PartialUpdate(outcome) ==
    /\ ss_pc = "cb_update"
    /\ renderer_calls' = Append(renderer_calls,
                                RendererCall(accumulated_content, FALSE, FALSE, outcome))
    /\ last_update_length' = IF outcome = "true" THEN cb.current_length
                             ELSE last_update_length
    /\ last_update_time' = IF outcome = "true" THEN cb.current_time
                           ELSE last_update_time
    /\ ss_pc' = "gen"
    /\ UNCHANGED <<gen_outcome, has_dify, card_attempt, card_sleeps, card_instance_id, stime,
                   delivered, accumulated_content, cb, full_response, gen_calls,
                   static_replies, returned>>
    /\ UNCHANGED notStream

\* The generation stream completes normally and returns the complete text
GenComplete ==
    /\ ss_pc = "gen"
    /\ full_response' = Concat(delivered)
    /\ gen_calls' = 1
    /\ ss_pc' = "final"
    /\ gen_outcome' = "complete"
    /\ UNCHANGED <<has_dify, card_attempt, card_sleeps, card_instance_id, stime,
                   delivered, accumulated_content, last_update_length,
                   last_update_time, cb, renderer_calls, static_replies, returned>>
    /\ UNCHANGED notStream

\* The generation stream raises
GenRaise ==
    /\ ss_pc = "gen"
    /\ gen_calls' = 1
    /\ ss_pc' = "error"
    /\ gen_outcome' = "raise"
    /\ UNCHANGED <<has_dify, card_attempt, card_sleeps, card_instance_id, stime,
                   delivered, accumulated_content, last_update_length,
                   last_update_time, cb, full_response, renderer_calls,
                   static_replies, returned>>
    /\ UNCHANGED notStream

\* asyncio.wait_for, lines 434-441: the timeout cancels the stream (and a
\* callback in progress) and raises asyncio.TimeoutError
WaitForTimeout ==
    /\ ss_pc \in {"gen", "cb_update"}
    /\ stime >= max_streaming_duration
    /\ gen_calls' = 1
    /\ ss_pc' = "timeout"
    /\ gen_outcome' = "timeout"
    /\ UNCHANGED <<has_dify, card_attempt, card_sleeps, card_instance_id, stime,
                   delivered, accumulated_content, last_update_length,
                   last_update_time, cb, full_response, renderer_calls,
                   static_replies, returned>>
    /\ UNCHANGED notStream

\* lines 466-469: card created, no dify_client: agent_handler answers.
\* response = None: it raised
AgentRespond(response) ==
    /\ ss_pc = "agent"
    /\ gen_calls' = gen_calls + 1
    /\ IF response = None
       THEN ss_pc' = "error" /\ UNCHANGED full_response
       ELSE /\ ss_pc' = "final"
            /\ full_response' = IF response # <<>> THEN response ELSE Apology
    /\ UNCHANGED <<gen_outcome, has_dify, card_attempt, card_sleeps, card_instance_id, stime,
                   delivered, accumulated_content, last_update_length,
                   last_update_time, cb, renderer_calls, static_replies, returned>>
    /\ UNCHANGED notStream

\* Where an exception of the final update goes: the handlers of lines 483-506
\* sit around the final update too
AfterFinalUpdate(outcome) ==
    CASE outcome = "raise" -> "error"
      [] outcome = "raise_timeout" -> "timeout"
      [] OTHER -> "done"

FinalUpdateReturnsFlushedMutant(outcome) ==
    /\ ss_pc = "final"
    /\ renderer_calls' = Append(renderer_calls,
                                RendererCall(full_response, TRUE, FALSE, outcome))
    /\ ss_pc' = AfterFinalUpdate(outcome)
    /\ returned' = IF AfterFinalUpdate(outcome) = "done"
                   THEN SubSeq(full_response, 1, last_update_length) ELSE returned
    /\ UNCHANGED <<gen_outcome, has_dify, card_attempt, card_sleeps, card_instance_id, stime,
                   delivered, accumulated_content, last_update_length,
                   last_update_time, cb, full_response, gen_calls, static_replies>>
    /\ UNCHANGED notStream

\* lines 443-465 and 471-481: the final update, finished=True.
\* outcome: "true", "false" (the result is not looked at), "raise" (an
\* Exception), "raise_timeout" (an asyncio.TimeoutError)
FinalUpdate(outcome) ==
    /\ ss_pc = "final"
    /\ renderer_calls' = Append(renderer_calls,
                                RendererCall(full_response, TRUE, FALSE, outcome))
    /\ ss_pc' = AfterFinalUpdate(outcome)
    /\ returned' = IF AfterFinalUpdate(outcome) = "done" THEN full_response ELSE returned
    /\ UNCHANGED <<gen_outcome, has_dify, card_attempt, card_sleeps, card_instance_id, stime,
                   delivered, accumulated_content, last_update_length,
                   last_update_time, cb, full_response, gen_calls, static_replies>>
    /\ UNCHANGED notStream

TimeoutUpdateFinishesMutant(outcome) ==
    /\ ss_pc = "timeout"
    /\ renderer_calls' = Append(renderer_calls,
                                RendererCall(TimeoutMessage, TRUE, FALSE, outcome))
    /\ returned' = IF outcome = "raise" THEN Apology ELSE TimeoutMessage
    /\ ss_pc' = "done"
    /\ UNCHANGED <<gen_outcome, has_dify, card_attempt, card_sleeps, card_instance_id, stime,
                   delivered, accumulated_content, last_update_length,
                   last_update_time, cb, full_response, gen_calls, static_replies>>
    /\ UNCHANGED notStream

\* lines 483-494: the timeout handler's failed update; when that raises, line 508
TimeoutUpdate(outcome) ==
    /\ ss_pc = "timeout"
    /\ renderer_calls' = Append(renderer_calls,
                                RendererCall(TimeoutMessage, FALSE, TRUE, outcome))
    /\ returned' = IF outcome = "raise" THEN Apology ELSE TimeoutMessage
    /\ ss_pc' = "done"
    /\ UNCHANGED <<gen_outcome, has_dify, card_attempt, card_sleeps, card_instance_id, stime,
                   delivered, accumulated_content, last_update_length,
                   last_update_time, cb, full_response, gen_calls, static_replies>>
    /\ UNCHANGED notStream

\* lines 495-506: the error handler's failed update; when that raises, line 508
ErrorUpdate(outcome) ==
    /\ ss_pc = "error"
    /\ renderer_calls' = Append(renderer_calls,
                                RendererCall(<<>>, FALSE, TRUE, outcome))
    /\ returned' = Apology
    /\ ss_pc' = "done"
    /\ UNCHANGED <<gen_outcome, has_dify, card_attempt, card_sleeps, card_instance_id, stime,
                   delivered, accumulated_content, last_update_length,
                   last_update_time, cb, full_response, gen_calls, static_replies>>
    /\ UNCHANGED notStream

\* The awaits a call of _process_streaming_response can be suspended in
Suspended == {"create", "fallback_gen", "fallback_agent", "fallback_reply", "gen",
              "cb_update", "agent", "final", "timeout", "error"}

\* The task that runs the call is cancelled: asyncio.CancelledError is raised
\* at the await the call is suspended in (wait_for passes it on after
\* cancelling the stream).  It is a BaseException: the `except Exception`
\* clauses of lines 424, 495 and 508 and `except asyncio.TimeoutError` do not
\* catch it and there is no finally clause, so the call ends here.
StreamCancel ==
    /\ ss_pc \in Suspended
    /\ ss_pc' = "cancelled"
    /\ UNCHANGED <<gen_outcome, has_dify, card_attempt, card_sleeps, card_instance_id, stime,
                   delivered, accumulated_content, last_update_length,
                   last_update_time, cb, full_response, renderer_calls, gen_calls,
                   static_replies, returned>>
    /\ UNCHANGED notStream

UpdateOutcomes == {"true", "false", "raise"}

StreamNext ==
    \/ StreamBegin
    \/ \E o \in {"id", "none", "raise"} : CardAttempt(o)
    \/ \E t \in {None, Hello} : FallbackGenerate(t)
    \/ \E r \in {None, <<>>, Hello} : FallbackAgent(r)
    \/ \E ok \in BOOLEAN : FallbackReply(ok)
    \/ StreamTick
    \/ StreamStall
    \/ \E c \in Chunks : GenChunk(c)
    \/ \E o \in UpdateOutcomes : PartialUpdate(o)
    \/ GenComplete
    \/ GenRaise
    \/ WaitForTimeout
    \/ \E r \in {None, <<>>, Hello} : AgentRespond(r)
    \/ \E o \in UpdateOutcomes \cup {"raise_timeout"} : FinalUpdate(o)
    \/ \E o \in UpdateOutcomes : TimeoutUpdate(o)
    \/ \E o \in UpdateOutcomes : ErrorUpdate(o)
    \/ StreamCancel

(***************************************************************************)
(* Task Manager and Runtime Adapter (src/src/runtime)                      *)
(***************************************************************************)

\* Number of tasks the model lets create_task create
MaxTasks == 2
\* health_check's heartbeat limit: 300 s; datetime.now() is counted in units
\* of five minutes
heartbeat_timeout == 1
\* Last value of datetime.now() the model explores: one tick past the limit
MaxRtNow == heartbeat_timeout + 1
\* start_time / last_heartbeat before the first start()
NoTime == -1

TaskNums == 0 .. MaxTasks - 1

\* class TaskScope
APPLICATION == "application"
PLATFORM == "platform"
ADAPTER == "adapter"
SESSION == "session"
TaskScope == {APPLICATION, PLATFORM, ADAPTER, SESSION}

\* The registry is keyed by the task_id string create_task builds from the
\* counter; a TaskWrapper is an object of another type and never equals a key.
TaskId(n) == <<"task_id", n>>
Wrapper(n) == <<"wrapper", n>>

\* An asyncio task and its TaskWrapper: where the coroutine is, the wrapper's
\* kind and scopes, a pending cancellation request, how it finished and the
\* state of its done callback.
AbsentTask ==
    [pos |-> "absent", kind |-> "", scopes |-> {}, cancel_requested |-> FALSE,
     outcome |-> "none", callback |-> "none"]

NewTask(kind, scopes) ==
    [pos |-> "new", kind |-> kind, scopes |-> scopes, cancel_requested |-> FALSE,
     outcome |-> "none", callback |-> "none"]

\* The task is done: asyncio schedules its done callbacks
Finish(t, outcome) ==
    [t EXCEPT !.pos = "done", !.outcome = outcome, !.cancel_requested = FALSE,
              !.callback = "scheduled"]

is_done(t) == t.pos = "done"

\* TaskWrapper.cancel: asyncio.Task.cancel does nothing on a finished task
cancel(t) == IF is_done(t) THEN t ELSE [t EXCEPT !.cancel_requested = TRUE]

\* TaskManager.create_task
create_task(kind, scopes) ==
    /\ tasks' = tasks \cup {TaskId(task_counter)}
    /\ task_counter' = task_counter + 1
    /\ atasks' = [atasks EXCEPT ![task_counter] = NewTask(kind, scopes)]

\* TaskManager.cancel_task(key): the tasks after the call
cancel_task(registry, ts, key) ==
    IF key \in registry THEN [ts EXCEPT ![key[2]] = cancel(@)] ELSE ts

ScopeMatchesAnyMutant(scope, scopes) == TRUE

\* `scope in wrapper.scopes`
scope_matches(scope, scopes) == scope \in scopes

\* TaskManager.cancel_tasks_by_scope(scope): the tasks after the call
cancel_tasks_by_scope(registry, ts, scope) ==
    [n \in TaskNums |->
        IF TaskId(n) \in registry /\ scope_matches(scope, ts[n].scopes)
        THEN cancel(ts[n]) ELSE ts[n]]

CleanupKeepsMutant(registry, key) == registry

\* TaskManager._cleanup_task(task_id): the registry after the call
cleanup_task(registry, key) == registry \ {key}

\* TaskManager.get_task_stats()["total_tasks"]
total_tasks == Cardinality(tasks)

\* TaskManager.get_running_tasks
running_tasks == {n \in TaskNums : TaskId(n) \in tasks /\ ~is_done(atasks[n])}

AdapterScopesMutant == {PLATFORM}

\* The scopes start() gives its task
AdapterTaskScopes == {APPLICATION, PLATFORM}

AdapterKind == "platform-adapter"
ClientKind == "client"

\* Scope lists of the tasks other clients of the Task Manager create
ClientScopeLists == {{SESSION}, {ADAPTER, PLATFORM}}

\* Hook methods the wrapped adapter instance may have
HookSets == {{"start", "run", "cleanup"}, {"cleanup"}, {}}

\* start() goes on to create a task
CanStart(running, enabled) == ~running /\ enabled

HealthCheckSkipsRunningMutant ==
    IF task_wrapper # <<>> /\ is_done(atasks[task_wrapper[2]]) THEN FALSE
    ELSE IF last_heartbeat # NoTime /\ rt_now - last_heartbeat > heartbeat_timeout
         THEN FALSE
    ELSE TRUE

\* RuntimeAdapter.health_check
health_check ==
    IF ~is_running THEN FALSE
    ELSE IF task_wrapper # <<>> /\ is_done(atasks[task_wrapper[2]]) THEN FALSE
    ELSE IF last_heartbeat # NoTime /\ rt_now - last_heartbeat > heartbeat_timeout
         THEN FALSE
    ELSE TRUE

Event(name) == <<name>>
Other == Event("other")

NoRestart == [on_running |-> FALSE, stops |-> 0, starts |-> 0, old |-> <<>>]

RuntimeIdle ==
    /\ rt_now = 0
    /\ tasks = {}
    /\ task_counter = 0
    /\ atasks = [n \in TaskNums |-> AbsentTask]
    /\ is_running = FALSE
    /\ start_time = NoTime
    /\ last_heartbeat = NoTime
    /\ task_wrapper = <<>>
    /\ ctl = "idle"
    /\ rt_event = Other
    /\ rs = NoRestart

\* RuntimeAdapter.__init__ and TaskManager.__init__
RuntimeInit ==
    /\ RuntimeIdle
    /\ is_enabled \in BOOLEAN
    /\ hooks \in HookSets

RuntimeRest ==
    /\ RuntimeIdle
    /\ is_enabled = TRUE
    /\ hooks = {}

\* The body of RuntimeAdapter.start
start ==
    /\ IF CanStart(is_running, is_enabled)
       THEN /\ task_counter < MaxTasks
            /\ create_task(AdapterKind, AdapterTaskScopes)
            /\ task_wrapper' = Wrapper(task_counter)
            /\ is_running' = TRUE
            /\ start_time' = rt_now
            /\ last_heartbeat' = rt_now
       ELSE UNCHANGED <<tasks, task_counter, atasks, task_wrapper, is_running,
                        start_time, last_heartbeat>>

\* The body of RuntimeAdapter.stop up to the await of the cleanup hook;
\* cancel_task is handed self.task_wrapper
stop(at_cleanup, at_return) ==
    /\ IF ~is_running
       THEN /\ ctl' = at_return
            /\ UNCHANGED <<atasks, task_wrapper, is_running>>
       ELSE /\ atasks' = IF task_wrapper # <<>>
                         THEN cancel_task(tasks, atasks, task_wrapper)
                         ELSE atasks
            /\ task_wrapper' = <<>>
            /\ IF "cleanup" \in hooks
               THEN ctl' = at_cleanup /\ UNCHANGED is_running
               ELSE ctl' = at_return /\ is_running' = FALSE

\* ... and from the return of the cleanup hook: `raise` when it raised
stop_after_cleanup(outcome, at_return) ==
    IF outcome = "ok"
    THEN is_running' = FALSE /\ ctl' = at_return /\ rt_event' = Other
    ELSE UNCHANGED is_running /\ ctl' = "idle" /\ rt_event' = Event("raised")

\* await adapter.start()
Start ==
    /\ ctl = "idle"
    /\ start
    /\ rt_event' = Event("start")
    /\ rs' = NoRestart
    /\ UNCHANGED <<rt_now, is_enabled, hooks, ctl, notRuntime>>

\* await adapter.stop()
StopBegin ==
    /\ ctl = "idle"
    /\ stop("stop_cleanup", "idle")
    /\ rt_event' = Event("stop")
    /\ rs' = NoRestart
    /\ UNCHANGED <<rt_now, tasks, task_counter, is_enabled, start_time,
                   last_heartbeat, hooks, notRuntime>>

StopCleanup(outcome) ==
    /\ ctl = "stop_cleanup"
    /\ stop_after_cleanup(outcome, "idle")
    /\ UNCHANGED <<rt_now, tasks, task_counter, atasks, is_enabled, start_time,
                   last_heartbeat, task_wrapper, hooks, rs, notRuntime>>

\* await adapter.restart(): its stop() ...
RestartBegin ==
    /\ ctl = "idle"
    /\ task_counter < MaxTasks
    /\ stop("restart_cleanup", "restart_pause")
    /\ rs' = [on_running |-> is_running, stops |-> 1, starts |-> 0,
              old |-> task_wrapper]
    /\ rt_event' = Event("stop")
    /\ UNCHANGED <<rt_now, tasks, task_counter, is_enabled, start_time,
                   last_heartbeat, hooks, notRuntime>>

RestartCleanup(outcome) ==
    /\ ctl = "restart_cleanup"
    /\ stop_after_cleanup(outcome, "restart_pause")
    /\ UNCHANGED <<rt_now, tasks, task_counter, atasks, is_enabled, start_time,
                   last_heartbeat, task_wrapper, hooks, rs, notRuntime>>

\* ... its asyncio.sleep(1) ...
RestartPause ==
    /\ ctl = "restart_pause"
    /\ ctl' = "restart_start"
    /\ rt_event' = Other
    /\ UNCHANGED <<rt_now, tasks, task_counter, atasks, is_running, is_enabled,
                   start_time, last_heartbeat, task_wrapper, hooks, rs,
                   notRuntime>>

\* ... and its start(), after which restart() returns
RestartStart ==
    /\ ctl = "restart_start"
    /\ start
    /\ ctl' = "idle"
    /\ rs' = [rs EXCEPT !.starts = @ + 1]
    /\ rt_event' = Event("restart_return")
    /\ UNCHANGED <<rt_now, is_enabled, hooks, notRuntime>>

\* RuntimeAdapter.enable / disable
SetEnabled(value) ==
    /\ is_enabled' = value
    /\ rt_event' = Other
    /\ UNCHANGED <<rt_now, tasks, task_counter, atasks, is_running, start_time,
                   last_heartbeat, task_wrapper, hooks, ctl, rs,
                   notRuntime>>

\* Where _run_with_error_handling goes after the start hook
AfterStartHook == IF "run" \in hooks THEN "run_hook" ELSE "loop"

\* The event loop runs a task for the first time
TaskFirstStep(n) ==
    /\ atasks[n].pos = "new"
    /\ ~atasks[n].cancel_requested
    /\ atasks' = [atasks EXCEPT ![n].pos =
                    IF atasks[n].kind = AdapterKind
                    THEN IF "start" \in hooks THEN "start_hook" ELSE AfterStartHook
                    ELSE "body"]
    /\ rt_event' = Other
    /\ UNCHANGED <<rt_now, tasks, task_counter, is_running, is_enabled, start_time,
                   last_heartbeat, task_wrapper, hooks, ctl, rs,
                   notRuntime>>

\* adapter_instance.start() returns or raises; `finally` clears is_running
start_hook_returns(n, outcome) ==
    /\ atasks[n].pos = "start_hook"
    /\ ~atasks[n].cancel_requested
    /\ IF outcome = "ok"
       THEN /\ atasks' = [atasks EXCEPT ![n].pos = AfterStartHook]
            /\ UNCHANGED is_running
       ELSE /\ atasks' = [atasks EXCEPT ![n] = Finish(@, "error")]
            /\ is_running' = FALSE
    /\ rt_event' = Other
    /\ UNCHANGED <<rt_now, tasks, task_counter, is_enabled, start_time,
                   last_heartbeat, task_wrapper, hooks, ctl, rs>>

AdapterStartHook(n, outcome) ==
    /\ start_hook_returns(n, outcome)
    /\ UNCHANGED notRuntime

\* adapter_instance.run() returns or raises
AdapterRunHook(n, outcome) ==
    /\ atasks[n].pos = "run_hook"
    /\ ~atasks[n].cancel_requested
    /\ atasks' = [atasks EXCEPT ![n] =
                    Finish(@, IF outcome = "ok" THEN "completed" ELSE "error")]
    /\ is_running' = FALSE
    /\ rt_event' = Other
    /\ UNCHANGED <<rt_now, tasks, task_counter, is_enabled, start_time,
                   last_heartbeat, task_wrapper, hooks, ctl, rs,
                   notRuntime>>

\* One round of the `while True` heartbeat loop
AdapterHeartbeat(n) ==
    /\ atasks[n].pos = "loop"
    /\ ~atasks[n].cancel_requested
    /\ last_heartbeat' = rt_now
    /\ rt_event' = Other
    /\ UNCHANGED <<rt_now, tasks, task_counter, atasks, is_running, is_enabled,
                   start_time, task_wrapper, hooks, ctl, rs, notRuntime>>

\* The coroutine of another client's task returns or raises
ClientTaskDone(n, outcome) ==
    /\ atasks[n].pos = "body"
    /\ ~atasks[n].cancel_requested
    /\ atasks' = [atasks EXCEPT ![n] =
                    Finish(@, IF outcome = "ok" THEN "completed" ELSE "error")]
    /\ rt_event' = Other
    /\ UNCHANGED <<rt_now, tasks, task_counter, is_running, is_enabled, start_time,
                   last_heartbeat, task_wrapper, hooks, ctl, rs,
                   notRuntime>>

\* The event loop delivers CancelledError: a task that never ran ends without
\* entering its coroutine, a running adapter coroutine passes its `finally`
TaskCancelled(n) ==
    /\ atasks[n].pos \notin {"absent", "done"}
    /\ atasks[n].cancel_requested
    /\ atasks' = [atasks EXCEPT ![n] = Finish(@, "cancelled")]
    /\ is_running' = IF atasks[n].kind = AdapterKind /\ atasks[n].pos # "new"
                     THEN FALSE ELSE is_running
    /\ rt_event' = Other
    /\ UNCHANGED <<rt_now, tasks, task_counter, is_enabled, start_time,
                   last_heartbeat, task_wrapper, hooks, ctl, rs,
                   notRuntime>>

\* The done callback create_task added: _cleanup_task(task_id)
CleanupTask(n) ==
    /\ atasks[n].callback = "scheduled"
    /\ tasks' = cleanup_task(tasks, TaskId(n))
    /\ atasks' = [atasks EXCEPT ![n].callback = "ran"]
    /\ rt_event' = Other
    /\ UNCHANGED <<rt_now, task_counter, is_running, is_enabled, start_time,
                   last_heartbeat, task_wrapper, hooks, ctl, rs,
                   notRuntime>>

\* Another client calls create_task
CreateClientTask(scopes) ==
    /\ task_counter < MaxTasks
    /\ create_task(ClientKind, scopes)
    /\ rt_event' = Other
    /\ UNCHANGED <<rt_now, is_running, is_enabled, start_time, last_heartbeat,
                   task_wrapper, hooks, ctl, rs, notRuntime>>

\* Another client calls cancel_task with a task id
CancelTask(n) ==
    /\ TaskId(n) \in tasks
    /\ atasks' = cancel_task(tasks, atasks, TaskId(n))
    /\ rt_event' = Other
    /\ UNCHANGED <<rt_now, tasks, task_counter, is_running, is_enabled, start_time,
                   last_heartbeat, task_wrapper, hooks, ctl, rs,
                   notRuntime>>

CancelTasksByScope(scope) ==
    /\ atasks' = cancel_tasks_by_scope(tasks, atasks, scope)
    /\ rt_event' = <<"cancel_tasks_by_scope", scope>>
    /\ UNCHANGED <<rt_now, tasks, task_counter, is_running, is_enabled, start_time,
                   last_heartbeat, task_wrapper, hooks, ctl, rs,
                   notRuntime>>

RtTick ==
    /\ rt_now < MaxRtNow
    /\ rt_now' = rt_now + 1
    /\ rt_event' = Other
    /\ UNCHANGED <<tasks, task_counter, atasks, is_running, is_enabled, start_time,
                   last_heartbeat, task_wrapper, hooks, ctl, rs,
                   notRuntime>>

HookOutcomes == {"ok", "raise"}

\* The Task Manager with the tasks of arbitrary clients
TasksNext ==
    \/ \E s \in ClientScopeLists : CreateClientTask(s)
    \/ \E n \in TaskNums : TaskFirstStep(n)
    \/ \E n \in TaskNums, o \in HookOutcomes : ClientTaskDone(n, o)
    \/ \E n \in TaskNums : TaskCancelled(n)
    \/ \E n \in TaskNums : CleanupTask(n)
    \/ \E n \in TaskNums : CancelTask(n)
    \/ \E s \in TaskScope : CancelTasksByScope(s)

\* A Runtime Adapter and the Task Manager that runs its tasks
RuntimeNext ==
    \/ Start
    \/ StopBegin
    \/ \E o \in HookOutcomes : StopCleanup(o)
    \/ RestartBegin
    \/ \E o \in HookOutcomes : RestartCleanup(o)
    \/ RestartPause
    \/ RestartStart
    \/ \E v \in BOOLEAN : SetEnabled(v)
    \/ \E n \in TaskNums : TaskFirstStep(n)
    \/ \E n \in TaskNums, o \in HookOutcomes : AdapterStartHook(n, o)
    \/ \E n \in TaskNums, o \in HookOutcomes : AdapterRunHook(n, o)
    \/ \E n \in TaskNums : AdapterHeartbeat(n)
    \/ \E n \in TaskNums : TaskCancelled(n)
    \/ \E n \in TaskNums : CleanupTask(n)
    \/ CancelTasksByScope(PLATFORM)
    \/ RtTick

(***************************************************************************)
(* Lifecycle Manager (src/mindbot_framework/core/lifecycle.py)             *)
(***************************************************************************)

\* Stage handlers and shutdown handlers the model registers
MaxHandlers == 2
MaxShutdownHandlers == 1
\* Calls of shutdown() the model makes
MaxShutdownCalls == 2

\* class LifecycleStage, in declaration order
LifecycleStage ==
    <<"setup_logging", "load_configuration", "initialize_database",
      "start_platform_adapters", "start_event_processing", "ready">>
READY == "ready"

StageNames == {LifecycleStage[i] : i \in 1 .. Len(LifecycleStage)}
StageIndex(stage) == CHOOSE i \in 1 .. Len(LifecycleStage) : LifecycleStage[i] = stage

\* Components the model registers and the stages it registers things to
ComponentNames == {"c1", "c2"}
RegStages == {"setup_logging", "start_platform_adapters", READY}

\* Last value of datetime.now() the model explores
MaxLcNow == Cardinality(ComponentNames)

\* ComponentStatus; a name not registered yet has no entry
Unregistered == [stage |-> "none", status |-> "unregistered", start_time |-> NoTime]
ComponentStatus(stage) == [stage |-> stage, status |-> "pending", start_time |-> NoTime]

RECURSIVE Reversed(_)
Reversed(seq) ==
    IF seq = <<>> THEN <<>> ELSE Append(Reversed(Tail(seq)), Head(seq))

RECURSIVE SumHandlers(_, _)
SumHandlers(handlers, stages) ==
    IF stages = {} THEN 0
    ELSE LET s == CHOOSE x \in stages : TRUE
         IN handlers[s] + SumHandlers(handlers, stages \ {s})

\* `for stage in LifecycleStage: if stage == READY: continue`: the stages at
\* or after index i that initialize() executes
StagesFrom(i) == {j \in i .. Len(LifecycleStage) : LifecycleStage[j] # READY}
Min(S) == CHOOSE x \in S : \A y \in S : x <= y

SelectAllPendingMutant(order, status, stage) ==
    SelectSeq(order, LAMBDA name : status[name].status = "pending")

\* _execute_stage: the components of this stage that are still pending, in
\* the order of the component_status dict
select_stage_components(order, status, stage) ==
    SelectSeq(order, LAMBDA name : status[name].stage = stage
                                   /\ status[name].status = "pending")

IgnoreFailureMutant(success) == TRUE

\* initialize(): `if not success` decides whether the stage loop goes on
stage_succeeded(success) == success

LifecycleIdle ==
    /\ lc_now = 0
    /\ components = <<>>
    /\ component_status = [c \in ComponentNames |-> Unregistered]
    /\ stage_handlers = [s \in StageNames |-> 0]
    /\ shutdown_handlers = 0
    /\ is_initialized = FALSE
    /\ is_shutting_down = FALSE
    /\ lc_pc = "not_called"
    /\ lc_stage = 0
    /\ lc_idx = 0
    /\ stage_components = <<>>
    /\ lc_result = "none"
    /\ sd_pc = "idle"
    /\ sd_idx = 0
    /\ lc_failure = "none"
    /\ sd_calls = 0
    /\ sd_log = <<>>
    /\ sd_out = <<>>

\* LifecycleManager.__init__
LifecycleInit == LifecycleIdle

LifecycleRest == LifecycleIdle

\* register_component, before initialize() runs
RegisterComponent(name, stage) ==
    /\ lc_pc = "not_called"
    /\ components' = IF \E i \in 1 .. Len(components) : components[i] = name
                     THEN components ELSE Append(components, name)
    /\ component_status' = [component_status EXCEPT ![name] = ComponentStatus(stage)]
    /\ UNCHANGED <<lc_now, stage_handlers, shutdown_handlers, is_initialized,
                   is_shutting_down, lc_pc, lc_stage, lc_idx, stage_components,
                   lc_result, sd_pc, sd_idx, lc_failure, sd_calls, sd_log, sd_out,
                   notLifecycle>>

\* register_stage_handler, before initialize() runs
RegisterStageHandler(stage) ==
    /\ lc_pc = "not_called"
    /\ SumHandlers(stage_handlers, StageNames) < MaxHandlers
    /\ stage_handlers' = [stage_handlers EXCEPT ![stage] = @ + 1]
    /\ UNCHANGED <<lc_now, components, component_status, shutdown_handlers,
                   is_initialized, is_shutting_down, lc_pc, lc_stage, lc_idx,
                   stage_components, lc_result, sd_pc, sd_idx, lc_failure, sd_calls, sd_log, sd_out,
                   notLifecycle>>

RegisterShutdownHandler ==
    /\ lc_pc = "not_called"
    /\ shutdown_handlers < MaxShutdownHandlers
    /\ shutdown_handlers' = shutdown_handlers + 1
    /\ UNCHANGED <<lc_now, components, component_status, stage_handlers,
                   is_initialized, is_shutting_down, lc_pc, lc_stage, lc_idx,
                   stage_components, lc_result, sd_pc, sd_idx, lc_failure, sd_calls, sd_log, sd_out,
                   notLifecycle>>

\* The entry of shutdown(): a second call returns at once
ShutdownRunsAgainMutant ==
    /\ sd_calls' = sd_calls + 1
    /\ is_shutting_down' = TRUE
    /\ sd_pc' = "handlers"
    /\ sd_idx' = 1

shutdown_begin ==
    /\ sd_calls' = sd_calls + 1
    /\ IF is_shutting_down
       THEN UNCHANGED <<is_shutting_down, sd_pc, sd_idx>>
       ELSE /\ is_shutting_down' = TRUE
            /\ sd_pc' = "handlers"
            /\ sd_idx' = 1

\* initialize() after _execute_stage returned `success`
after_stage(success) ==
    IF stage_succeeded(success)
    THEN IF StagesFrom(lc_stage + 1) = {}
         THEN /\ is_initialized' = TRUE
              /\ lc_result' = "true"
              /\ lc_pc' = "returned"
              /\ UNCHANGED <<lc_stage, lc_idx, is_shutting_down, sd_pc, sd_idx,
                             sd_calls>>
         ELSE /\ lc_stage' = Min(StagesFrom(lc_stage + 1))
              /\ lc_idx' = 1
              /\ lc_pc' = "handlers"
              /\ UNCHANGED <<is_initialized, lc_result, is_shutting_down, sd_pc,
                             sd_idx, sd_calls>>
    ELSE /\ shutdown_begin
         /\ lc_pc' = "shutdown"
         /\ UNCHANGED <<is_initialized, lc_result, lc_stage, lc_idx>>

\* initialize() is called and enters the first stage
InitializeBegin ==
    /\ lc_pc = "not_called"
    /\ ~is_initialized
    /\ lc_stage' = Min(StagesFrom(1))
    /\ lc_idx' = 1
    /\ lc_pc' = "handlers"
    /\ UNCHANGED <<lc_now, components, component_status, stage_handlers,
                   shutdown_handlers, is_initialized, is_shutting_down,
                   stage_components, lc_result, sd_pc, sd_idx, lc_failure, sd_calls, sd_log, sd_out,
                   notLifecycle>>

\* `await handler()` for the next handler of the stage
StageHandler(outcome) ==
    /\ lc_pc = "handlers"
    /\ lc_idx <= stage_handlers[LifecycleStage[lc_stage]]
    /\ IF outcome = "ok"
       THEN /\ lc_idx' = lc_idx + 1
            /\ UNCHANGED <<lc_pc, lc_stage, is_initialized, lc_result,
                           is_shutting_down, sd_pc, sd_idx, lc_failure, sd_calls>>
       ELSE /\ after_stage(FALSE)
            /\ lc_failure' = "handler"
    /\ UNCHANGED <<lc_now, components, component_status, stage_handlers,
                   shutdown_handlers, stage_components, sd_log, sd_out, notLifecycle>>

\* The handlers are through: stage_components is computed
SelectStageComponents ==
    /\ lc_pc = "handlers"
    /\ lc_idx > stage_handlers[LifecycleStage[lc_stage]]
    /\ stage_components' =
          select_stage_components(components, component_status, LifecycleStage[lc_stage])
    /\ lc_idx' = 1
    /\ lc_pc' = "components"
    /\ UNCHANGED <<lc_now, components, component_status, stage_handlers,
                   shutdown_handlers, is_initialized, is_shutting_down, lc_stage,
                   lc_result, sd_pc, sd_idx, lc_failure, sd_calls, sd_log, sd_out,
                   notLifecycle>>

\* _initialize_component up to the await of the component's hook
ComponentBegin ==
    /\ lc_pc = "components"
    /\ lc_idx <= Len(stage_components)
    /\ component_status' = [component_status EXCEPT
                               ![stage_components[lc_idx]].status = "running",
                               ![stage_components[lc_idx]].start_time = lc_now]
    /\ lc_pc' = "hook"
    /\ UNCHANGED <<lc_now, components, stage_handlers, shutdown_handlers,
                   is_initialized, is_shutting_down, lc_stage, lc_idx,
                   stage_components, lc_result, sd_pc, sd_idx, lc_failure, sd_calls, sd_log, sd_out,
                   notLifecycle>>

\* The hook returns or raises
ComponentEnd(outcome) ==
    /\ lc_pc = "hook"
    /\ IF outcome = "ok"
       THEN /\ component_status' = [component_status EXCEPT
                                       ![stage_components[lc_idx]].status = "completed"]
            /\ lc_idx' = lc_idx + 1
            /\ lc_pc' = "components"
            /\ UNCHANGED <<lc_stage, is_initialized, lc_result, is_shutting_down,
                           sd_pc, sd_idx, lc_failure, sd_calls>>
       ELSE /\ component_status' = [component_status EXCEPT
                                       ![stage_components[lc_idx]].status = "failed"]
            /\ after_stage(FALSE)
            /\ lc_failure' = "component"
    /\ UNCHANGED <<lc_now, components, stage_handlers, shutdown_handlers,
                   stage_components, sd_log, sd_out, notLifecycle>>

\* Every component of the stage is through: _execute_stage returns True
StageDone ==
    /\ lc_pc = "components"
    /\ lc_idx > Len(stage_components)
    /\ after_stage(TRUE)
    /\ UNCHANGED <<lc_now, components, component_status, stage_handlers,
                   shutdown_handlers, stage_components, lc_failure, sd_log, sd_out,
                   notLifecycle>>

\* The application's stop(), once initialize() has succeeded
ExternalShutdown ==
    /\ lc_pc = "returned"
    /\ lc_result = "true"
    /\ sd_pc = "idle"
    /\ shutdown_begin
    /\ UNCHANGED <<lc_now, components, component_status, stage_handlers,
                   shutdown_handlers, is_initialized, lc_pc, lc_stage, lc_idx,
                   stage_components, lc_result, lc_failure, sd_log, sd_out, notLifecycle>>

\* shutdown() is called again, while the first call is in progress or after
\* it has finished: lines 183-185
ShutdownAgain ==
    /\ sd_pc # "idle"
    /\ sd_calls < MaxShutdownCalls
    /\ shutdown_begin
    /\ UNCHANGED <<lc_now, components, component_status, stage_handlers,
                   shutdown_handlers, is_initialized, lc_pc, lc_stage, lc_idx,
                   stage_components, lc_result, lc_failure, sd_log, sd_out, notLifecycle>>

\* shutdown(): the next shutdown handler; its failure is logged
ShutdownHandler(outcome) ==
    /\ sd_pc = "handlers"
    /\ sd_idx <= shutdown_handlers
    /\ sd_idx' = sd_idx + 1
    /\ sd_log' = Append(sd_log, <<"handler", sd_idx>>)
    /\ sd_out' = Append(sd_out, outcome)
    /\ UNCHANGED <<lc_now, components, component_status, stage_handlers,
                   shutdown_handlers, is_initialized, is_shutting_down, lc_pc,
                   lc_stage, lc_idx, stage_components, lc_result, sd_pc,
                   lc_failure, sd_calls, notLifecycle>>

ShutdownComponentsBegin ==
    /\ sd_pc = "handlers"
    /\ sd_idx > shutdown_handlers
    /\ sd_pc' = "components"
    /\ sd_idx' = 1
    /\ UNCHANGED <<lc_now, components, component_status, stage_handlers,
                   shutdown_handlers, is_initialized, is_shutting_down, lc_pc,
                   lc_stage, lc_idx, stage_components, lc_result, lc_failure, sd_calls, sd_log, sd_out,
                   notLifecycle>>

ShutdownStopsAtFailureMutant(outcome) ==
    /\ sd_pc = "components"
    /\ sd_idx <= Len(components)
    /\ component_status' =
          IF outcome = "ok"
          THEN [component_status EXCEPT ![Reversed(components)[sd_idx]].status = "completed"]
          ELSE component_status
    /\ sd_idx' = IF outcome = "ok" THEN sd_idx + 1 ELSE Len(components) + 1
    /\ sd_log' = Append(sd_log, <<"component", Reversed(components)[sd_idx]>>)
    /\ sd_out' = Append(sd_out, outcome)
    /\ UNCHANGED <<lc_now, components, stage_handlers, shutdown_handlers,
                   is_initialized, is_shutting_down, lc_pc, lc_stage, lc_idx,
                   stage_components, lc_result, sd_pc, lc_failure, sd_calls,
                   notLifecycle>>

\* _shutdown_component for the next component in reverse registration order
ShutdownComponent(outcome) ==
    /\ sd_pc = "components"
    /\ sd_idx <= Len(components)
    /\ component_status' =
          IF outcome = "ok"
          THEN [component_status EXCEPT ![Reversed(components)[sd_idx]].status = "completed"]
          ELSE component_status
    /\ sd_idx' = sd_idx + 1
    /\ sd_log' = Append(sd_log, <<"component", Reversed(components)[sd_idx]>>)
    /\ sd_out' = Append(sd_out, outcome)
    /\ UNCHANGED <<lc_now, components, stage_handlers, shutdown_handlers,
                   is_initialized, is_shutting_down, lc_pc, lc_stage, lc_idx,
                   stage_components, lc_result, sd_pc, lc_failure, sd_calls,
                   notLifecycle>>

\* shutdown() returns; an initialize() that awaited it returns False
ShutdownDone ==
    /\ sd_pc = "components"
    /\ sd_idx > Len(components)
    /\ sd_pc' = "done"
    /\ IF lc_pc = "shutdown"
       THEN lc_pc' = "returned" /\ lc_result' = "false"
       ELSE UNCHANGED <<lc_pc, lc_result>>
    /\ UNCHANGED <<lc_now, components, component_status, stage_handlers,
                   shutdown_handlers, is_initialized, is_shutting_down, lc_stage,
                   lc_idx, stage_components, sd_idx, lc_failure, sd_calls, sd_log, sd_out,
                   notLifecycle>>

LcTick ==
    /\ lc_pc \notin {"not_called", "returned"}
    /\ lc_now < MaxLcNow
    /\ lc_now' = lc_now + 1
    /\ UNCHANGED <<components, component_status, stage_handlers, shutdown_handlers,
                   is_initialized, is_shutting_down, lc_pc, lc_stage, lc_idx,
                   stage_components, lc_result, sd_pc, sd_idx, lc_failure, sd_calls, sd_log, sd_out,
                   notLifecycle>>

\* LifecycleManager.get_health_status
get_health_status ==
    IF is_shutting_down THEN "shutting_down"
    ELSE IF ~is_initialized THEN "initializing"
    ELSE IF \E i \in 1 .. Len(components) :
               component_status[components[i]].status = "failed"
         THEN "unhealthy"
    ELSE IF \A i \in 1 .. Len(components) :
               component_status[components[i]].status = "completed"
         THEN "healthy"
    ELSE "initializing"

LifecycleNext ==
    \/ \E c \in ComponentNames, s \in RegStages : RegisterComponent(c, s)
    \/ \E s \in RegStages : RegisterStageHandler(s)
    \/ RegisterShutdownHandler
    \/ InitializeBegin
    \/ \E o \in HookOutcomes : StageHandler(o)
    \/ SelectStageComponents
    \/ ComponentBegin
    \/ \E o \in HookOutcomes : ComponentEnd(o)
    \/ StageDone
    \/ ExternalShutdown
    \/ ShutdownAgain
    \/ \E o \in HookOutcomes : ShutdownHandler(o)
    \/ ShutdownComponentsBegin
    \/ \E o \in HookOutcomes : ShutdownComponent(o)
    \/ ShutdownDone
    \/ LcTick

(***************************************************************************)
(* Event Bus (src/mindbot_framework/core/event_bus.py)                     *)
(***************************************************************************)

\* Number of publish() calls the model makes
MaxEvents == 2

\* asyncio.Queue(): maxsize, 0 for no limit
maxsize == 0

\* class EventType: the two types the model publishes
EventTypes == {"message_received", "custom"}

\* The callables the model subscribes and registers as named handlers
Callables == {"f", "g"}

\* The callers of start(): _initialize_component, for the component
\* registered as "event_bus", and _start_event_processing_stage.  Each call
\* creates a task that runs _process_events.
Starters == {"component", "stage_handler"}

NoCalls == [h \in Callables |-> 0]

\* A task of _process_events: where it is, the event it handles, the
\* _call_handler_safely tasks it awaits, and for the latest event it handled
\* the subscribers and named handlers it found, how often each was invoked
\* and whether one of them raised
NoLoop ==
    [pc |-> "none", event |-> None, todo |-> {}, subs |-> {}, named |-> {},
     sub_calls |-> NoCalls, named_calls |-> NoCalls, raised |-> FALSE]

\* asyncio.Queue.full()
full(queue) == maxsize > 0 /\ Len(queue) >= maxsize

BusIdle ==
    /\ bus_running = FALSE
    /\ event_queue = <<>>
    /\ subscribers = [t \in EventTypes |-> {}]
    /\ event_handlers = {}
    /\ loops = [l \in Starters |-> NoLoop]
    /\ published = 0
    /\ bus_hist = [raised_before |-> FALSE]

\* EventBus.__init__
BusInit == BusIdle

BusRest == BusIdle

\* start(): sets the flag and creates a task, whatever the flag was
BusStart(l) ==
    /\ loops[l].pc = "none"
    /\ bus_running' = TRUE
    /\ loops' = [loops EXCEPT ![l].pc = "check"]
    /\ UNCHANGED <<event_queue, subscribers, event_handlers, published, bus_hist,
                   notBus>>

\* stop(): clears the flag; the tasks are not cancelled
BusStop ==
    /\ bus_running
    /\ bus_running' = FALSE
    /\ UNCHANGED <<event_queue, subscribers, event_handlers, loops, published,
                   bus_hist, notBus>>

\* publish(): await self.event_queue.put(event)
BusPublish(t) ==
    /\ published < MaxEvents
    /\ ~full(event_queue)
    /\ published' = published + 1
    /\ event_queue' = Append(event_queue, t)
    /\ UNCHANGED <<bus_running, subscribers, event_handlers, loops, bus_hist,
                   notBus>>

\* subscribe() / unsubscribe()
Subscribe(t, h) ==
    /\ subscribers' = [subscribers EXCEPT ![t] = @ \cup {h}]
    /\ UNCHANGED <<bus_running, event_queue, event_handlers, loops, published,
                   bus_hist, notBus>>

Unsubscribe(t, h) ==
    /\ subscribers' = [subscribers EXCEPT ![t] = @ \ {h}]
    /\ UNCHANGED <<bus_running, event_queue, event_handlers, loops, published,
                   bus_hist, notBus>>

\* register_handler() / unregister_handler(); the handler has its own name
RegisterHandler(h) ==
    /\ event_handlers' = event_handlers \cup {h}
    /\ UNCHANGED <<bus_running, event_queue, subscribers, loops, published,
                   bus_hist, notBus>>

UnregisterHandler(h) ==
    /\ event_handlers' = event_handlers \ {h}
    /\ UNCHANGED <<bus_running, event_queue, subscribers, loops, published,
                   bus_hist, notBus>>

\* _process_events: `while self.is_running`
LoopCheck(l) ==
    /\ loops[l].pc = "check"
    /\ loops' = [loops EXCEPT ![l].pc = IF bus_running THEN "get" ELSE "exited"]
    /\ UNCHANGED <<bus_running, event_queue, subscribers, event_handlers,
                   published, bus_hist, notBus>>

\* wait_for(self.event_queue.get(), timeout=1.0) times out: continue
LoopTimeout(l) ==
    /\ loops[l].pc = "get"
    /\ event_queue = <<>>
    /\ loops' = [loops EXCEPT ![l].pc = "check"]
    /\ UNCHANGED <<bus_running, event_queue, subscribers, event_handlers,
                   published, bus_hist, notBus>>

\* _call_handlers up to its await: one task for each named handler there is
\* now; none: the event is handled and the loop goes round
call_handlers(loop) ==
    IF event_handlers = {}
    THEN [loop EXCEPT !.pc = "check", !.named = {}]
    ELSE [loop EXCEPT !.pc = "handlers", !.named = event_handlers,
                      !.todo = event_handlers]

NotifyFirstOnlyMutant(loop, t) ==
    IF subscribers[t] = {}
    THEN call_handlers([loop EXCEPT !.subs = {}])
    ELSE [loop EXCEPT !.pc = "subscribers", !.subs = subscribers[t],
                      !.todo = {CHOOSE h \in subscribers[t] : TRUE}]

\* _notify_subscribers up to its await: one task for each subscriber of the
\* event's type; none: on to _call_handlers
notify_subscribers(loop, t) ==
    IF subscribers[t] = {}
    THEN call_handlers([loop EXCEPT !.subs = {}])
    ELSE [loop EXCEPT !.pc = "subscribers", !.subs = subscribers[t],
                      !.todo = subscribers[t]]

\* The get() returns an event: _handle_event, up to the first await
LoopGet(l) ==
    /\ loops[l].pc = "get"
    /\ event_queue # <<>>
    /\ event_queue' = Tail(event_queue)
    /\ loops' = [loops EXCEPT ![l] =
                    notify_subscribers([NoLoop EXCEPT !.event = Head(event_queue)],
                                       Head(event_queue))]
    /\ bus_hist' = [raised_before |-> bus_hist.raised_before \/ loops[l].raised]
    /\ UNCHANGED <<bus_running, subscribers, event_handlers, published, notBus>>

\* One _call_handler_safely task runs: the handler returns or raises, and an
\* exception ends in the task's `except Exception`
HandlerTask(l, h, outcome) ==
    /\ loops[l].pc \in {"subscribers", "handlers"}
    /\ h \in loops[l].todo
    /\ loops' = [loops EXCEPT
                    ![l].todo = @ \ {h},
                    ![l].sub_calls[h] = IF loops[l].pc = "subscribers" THEN @ + 1 ELSE @,
                    ![l].named_calls[h] = IF loops[l].pc = "handlers" THEN @ + 1 ELSE @,
                    ![l].raised = @ \/ outcome = "raise"]
    /\ UNCHANGED <<bus_running, event_queue, subscribers, event_handlers,
                   published, bus_hist, notBus>>

\* asyncio.gather returns: after the subscribers the named handlers, after
\* the named handlers the loop goes round
GatherDone(l) ==
    /\ loops[l].pc \in {"subscribers", "handlers"}
    /\ loops[l].todo = {}
    /\ loops' = [loops EXCEPT ![l] = IF loops[l].pc = "subscribers"
                                     THEN call_handlers(loops[l])
                                     ELSE [loops[l] EXCEPT !.pc = "check"]]
    /\ UNCHANGED <<bus_running, event_queue, subscribers, event_handlers,
                   published, bus_hist, notBus>>

\* Events taken from the queue and handled to the end
handled ==
    published - Len(event_queue)
        - Cardinality({l \in Starters : loops[l].pc \in {"subscribers", "handlers"}})

\* _process_events tasks running
active_loops == {l \in Starters : loops[l].pc \notin {"none", "exited"}}

\* The bus with the consumer task of one start() call, its subscribers and
\* its named handlers
BusNext ==
    \/ BusStart("component")
    \/ BusStop
    \/ \E t \in EventTypes : BusPublish(t)
    \/ \E t \in EventTypes, h \in Callables : Subscribe(t, h)
    \/ \E t \in EventTypes, h \in Callables : Unsubscribe(t, h)
    \/ \E h \in Callables : RegisterHandler(h)
    \/ \E h \in Callables : UnregisterHandler(h)
    \/ LoopCheck("component")
    \/ LoopTimeout("component")
    \/ LoopGet("component")
    \/ \E h \in Callables, o \in HookOutcomes : HandlerTask("component", h, o)
    \/ GatherDone("component")

\* The bus under the start() and stop() calls of several callers
BusLoopsNext ==
    \/ \E l \in Starters : BusStart(l)
    \/ BusStop
    \/ \E t \in EventTypes : BusPublish(t)
    \/ \E t \in EventTypes, h \in Callables : Subscribe(t, h)
    \/ \E l \in Starters : LoopCheck(l)
    \/ \E l \in Starters : LoopTimeout(l)
    \/ \E l \in Starters : LoopGet(l)
    \/ \E l \in Starters, h \in Callables, o \in HookOutcomes : HandlerTask(l, h, o)
    \/ \E l \in Starters : GatherDone(l)

(***************************************************************************)
(* Bounded concurrency of one adapter handler                              *)
(* (src/src/multi_dingtalk_client.py, src/src/wecom_client.py)             *)
(***************************************************************************)

\* instance_config["max_concurrent_messages"] (10 in the source), scaled for
\* model checking
max_concurrent_messages == 2

\* Number of inbound messages the model delivers to the handler
MaxInbound == 4

Inbound == 1 .. MaxInbound

\* How _process_message ends: it returns, it returns from its own
\* `except Exception`, or the task is cancelled and CancelledError leaves it
ProcessOutcomes == {"ok", "raise", "cancelled"}

SemIdle ==
    /\ sem_value = max_concurrent_messages
    /\ sem_msgs = [m \in Inbound |-> "new"]

\* __init__: asyncio.Semaphore(max_concurrent_messages)
SemInit == SemIdle

SemRest == SemIdle

sem_waiting == {m \in Inbound : sem_msgs[m] = "waiting"}
\* In _process_message: "processing" entered at once, "admitted" after a wait
sem_processing == {m \in Inbound : sem_msgs[m] \in {"processing", "admitted"}}

\* process(callback): `async with self.message_semaphore` takes a permit at
\* once when there is one (and, in the asyncio versions that queue new
\* arrivals behind the waiters, when nobody waits)
ProcessEnter(m) ==
    /\ sem_msgs[m] = "new"
    /\ sem_value > 0
    /\ sem_value' = sem_value - 1
    /\ sem_msgs' = [sem_msgs EXCEPT ![m] = "processing"]
    /\ UNCHANGED notSem

\* ... and waits when there is none (or when others wait already)
ProcessWait(m) ==
    /\ sem_msgs[m] = "new"
    /\ sem_value = 0 \/ sem_waiting # {}
    /\ sem_msgs' = [sem_msgs EXCEPT ![m] = "waiting"]
    /\ UNCHANGED <<sem_value, notSem>>

\* A waiter woken by a release takes the permit
ProcessAdmit(m) ==
    /\ sem_msgs[m] = "waiting"
    /\ sem_value > 0
    /\ sem_value' = sem_value - 1
    /\ sem_msgs' = [sem_msgs EXCEPT ![m] = "admitted"]
    /\ UNCHANGED notSem

ExitKeepsPermitOnErrorMutant(outcome) ==
    IF outcome = "ok" THEN sem_value + 1 ELSE sem_value

\* __aexit__ of `async with`: the permit goes back however the body ended
semaphore_exit(outcome) == sem_value + 1

\* _process_message ends and the `async with` block is left
ProcessLeave(m, outcome) ==
    /\ m \in sem_processing
    /\ sem_value' = semaphore_exit(outcome)
    /\ sem_msgs' = [sem_msgs EXCEPT ![m] = outcome]
    /\ UNCHANGED notSem

SemNext ==
    \/ \E m \in Inbound : ProcessEnter(m)
    \/ \E m \in Inbound : ProcessWait(m)
    \/ \E m \in Inbound : ProcessAdmit(m)
    \/ \E m \in Inbound, o \in ProcessOutcomes : ProcessLeave(m, o)

(***************************************************************************)
(* Adapter registry and health supervision                                 *)
(* (src/src/enhanced_multi_platform_manager.py)                            *)
(***************************************************************************)

\* Number of RuntimeAdapter objects the add_adapter calls of the model create
MaxAdds == 3

AdapterIds == {"a1", "a2"}
AdapterObjects == 1 .. MaxAdds

\* A RuntimeAdapter as the manager sees it: "none" (not created), "created"
\* (never started), "running" (is_running, owning task alive), "stopped"
\* (stop() has run), "crashed" (the run loop ended by itself and its
\* `finally` cleared is_running)
AdapterStates == {"none", "created", "running", "stopped", "crashed"}

\* How add_adapter can go: no adapter instance (unknown type, or the creation
\* failed), RuntimeAdapter.initialize raises out of the wrapped adapter's
\* initialize hook, or the adapter is added
AddOutcomes == {"no_instance", "initialize_raises", "ok"}

NoAdd == [id |-> "", outcome |-> "", initialize_calls |-> 0, returned |-> FALSE]

SupervisorAsleep ==
    [pc |-> "sleep", idx |-> 0, size |-> 0, obj |-> 0, due |-> {}, restarted |-> {}]

ManagerIdle ==
    /\ runtime_adapters = <<>>
    /\ adapter_state = [o \in AdapterObjects |-> "none"]
    /\ total_adapters = 0
    /\ supervisor = SupervisorAsleep
    /\ add_call = NoAdd

\* EnhancedMultiPlatformManager.__init__ and initialize(), which creates the
\* task of _health_check_loop
ManagerInit == ManagerIdle

ManagerRest == ManagerIdle

\* The dict keeps its entries in insertion order; a deleted entry leaves an
\* unused slot behind, which an iteration in progress steps over.
records == SelectSeq(runtime_adapters, LAMBDA e : e.live)
registered_ids == {records[i].id : i \in 1 .. Len(records)}
registered_objects == {records[i].obj : i \in 1 .. Len(records)}
adapter_of(id) == records[CHOOSE i \in 1 .. Len(records) : records[i].id = id].obj

\* self.runtime_adapters[adapter_id] = runtime_adapter: the entry of a key
\* that is there is replaced in place, a new key goes last
store_adapter(registry, id, o) ==
    IF \E i \in 1 .. Len(registry) : registry[i].live /\ registry[i].id = id
    THEN [i \in 1 .. Len(registry) |->
             IF registry[i].live /\ registry[i].id = id
             THEN [id |-> id, obj |-> o, live |-> TRUE] ELSE registry[i]]
    ELSE Append(registry, [id |-> id, obj |-> o, live |-> TRUE])

\* del self.runtime_adapters[adapter_id]
delete_adapter(registry, id) ==
    [i \in 1 .. Len(registry) |->
        IF registry[i].id = id THEN [registry[i] EXCEPT !.live = FALSE] ELSE registry[i]]

\* The supervisor's task is suspended in one of its sleeps: another task can
\* run.  Between two awaits the pass runs without interruption (health_check
\* awaits nothing).
supervisor_suspended == supervisor.pc \in {"sleep", "restart_sleep"}

AdapterStoredAfterFailedInitializeMutant(outcome) == outcome # "no_instance"

\* add_adapter reaches the statements after `await runtime_adapter.initialize()`
\* (the record is stored, total_adapters incremented, True returned)
adapter_stored(outcome) == outcome = "ok"

\* Calls of the wrapped adapter's initialize hook RuntimeAdapter.initialize makes
initialize(outcome) == IF outcome = "no_instance" THEN 0 ELSE 1

\* add_adapter: a new RuntimeAdapter is stored under adapter_id unless the
\* call returned False before
AddAdapter(id, outcome) ==
    /\ supervisor_suspended
    /\ \E o \in AdapterObjects :
          /\ adapter_state[o] = "none"
          /\ \A k \in AdapterObjects : k < o => adapter_state[k] # "none"
          /\ IF adapter_stored(outcome)
             THEN /\ adapter_state' = [adapter_state EXCEPT ![o] = "created"]
                  /\ runtime_adapters' = store_adapter(runtime_adapters, id, o)
                  /\ total_adapters' = total_adapters + 1
             ELSE UNCHANGED <<adapter_state, runtime_adapters, total_adapters>>
    /\ add_call' = [id |-> id, outcome |-> outcome,
                    initialize_calls |-> initialize(outcome),
                    returned |-> adapter_stored(outcome)]
    /\ UNCHANGED <<supervisor, notManager>>

\* RuntimeAdapter.start(), as C6 has it: nothing when running, else a new task
adapter_start(state) == IF state = "running" THEN state ELSE "running"

\* RuntimeAdapter.stop(): nothing when not running
adapter_stop(state) == IF state = "running" THEN "stopped" ELSE state

\* start_adapter
StartAdapter(id) ==
    /\ supervisor_suspended
    /\ id \in registered_ids
    /\ adapter_state[adapter_of(id)] # "running"
    /\ adapter_state' = [adapter_state EXCEPT ![adapter_of(id)] = adapter_start(@)]
    /\ supervisor' = [supervisor EXCEPT !.due = @ \ {adapter_of(id)}]
    /\ UNCHANGED <<runtime_adapters, total_adapters, notManager>>
    /\ add_call' = NoAdd

\* stop_adapter
StopAdapter(id) ==
    /\ supervisor_suspended
    /\ id \in registered_ids
    /\ adapter_state[adapter_of(id)] = "running"
    /\ adapter_state' = [adapter_state EXCEPT ![adapter_of(id)] = adapter_stop(@)]
    /\ UNCHANGED <<runtime_adapters, total_adapters, supervisor, notManager>>
    /\ add_call' = NoAdd

\* remove_adapter: stop_adapter, then the record is deleted
RemoveAdapter(id) ==
    /\ supervisor_suspended
    /\ id \in registered_ids
    /\ adapter_state' = [adapter_state EXCEPT ![adapter_of(id)] = adapter_stop(@)]
    /\ runtime_adapters' = delete_adapter(runtime_adapters, id)
    /\ total_adapters' = IF total_adapters - 1 > 0 THEN total_adapters - 1 ELSE 0
    /\ UNCHANGED <<supervisor, notManager>>
    /\ add_call' = NoAdd

\* _run_with_error_handling ends by itself: the wrapped start or run raised
\* or returned, and `finally` clears is_running
RunLoopEnds(o) ==
    /\ supervisor_suspended
    /\ adapter_state[o] = "running"
    /\ adapter_state' = [adapter_state EXCEPT ![o] = "crashed"]
    /\ UNCHANGED <<runtime_adapters, total_adapters, supervisor, notManager>>
    /\ add_call' = NoAdd

\* RuntimeAdapter.health_check, heartbeat age aside
adapter_healthy(state) == state = "running"

\* _health_check_loop: the sleep is over, `for ... in
\* self.runtime_adapters.items()` begins
SupervisorWake ==
    /\ supervisor.pc = "sleep"
    /\ supervisor' =
          [pc |-> "next", idx |-> 1, size |-> Len(records), obj |-> 0,
           due |-> {o \in registered_objects : adapter_state[o] = "crashed"},
           restarted |-> {}]
    /\ UNCHANGED <<runtime_adapters, adapter_state, total_adapters, notManager>>
    /\ add_call' = NoAdd

\* The for statement fetches the next item: RuntimeError when the dict has
\* changed size since the iteration began (caught at line 281, the pass is
\* over), the end of the pass, or the health check of the next adapter and,
\* when it fails, restart_adapter up to the sleep of restart()
SupervisorNext ==
    /\ supervisor.pc = "next"
    /\ LET rest == {i \in supervisor.idx .. Len(runtime_adapters) : runtime_adapters[i].live}
       IN IF Len(records) # supervisor.size \/ rest = {}
          THEN supervisor' = [supervisor EXCEPT !.pc = "sleep"]
          ELSE LET i == Min(rest)
                   o == runtime_adapters[i].obj
               IN IF adapter_healthy(adapter_state[o])
                  THEN supervisor' = [supervisor EXCEPT !.idx = i + 1]
                  ELSE supervisor' = [supervisor EXCEPT !.pc = "restart_sleep",
                                         !.idx = i + 1, !.obj = o,
                                         !.restarted = @ \cup {o}]
    /\ UNCHANGED <<runtime_adapters, adapter_state, total_adapters, notManager>>
    /\ add_call' = NoAdd

\* restart() after its sleep: start(), which may raise; restart_adapter
\* catches that and the for loop goes on
SupervisorRestartStart(outcome) ==
    /\ supervisor.pc = "restart_sleep"
    /\ adapter_state' = IF outcome = "ok"
                        THEN [adapter_state EXCEPT ![supervisor.obj] = adapter_start(@)]
                        ELSE adapter_state
    /\ supervisor' = [supervisor EXCEPT !.pc = "next", !.obj = 0]
    /\ UNCHANGED <<runtime_adapters, total_adapters, notManager>>
    /\ add_call' = NoAdd

\* The registry calls alone, with the supervisor in its sleep
RegistryNext ==
    \/ \E id \in AdapterIds, o \in AddOutcomes : AddAdapter(id, o)
    \/ \E id \in AdapterIds : StartAdapter(id)
    \/ \E id \in AdapterIds : StopAdapter(id)
    \/ \E id \in AdapterIds : RemoveAdapter(id)
    \/ \E o \in AdapterObjects : RunLoopEnds(o)

ManagerNext ==
    \/ \E id \in AdapterIds, o \in AddOutcomes : AddAdapter(id, o)
    \/ \E id \in AdapterIds : StartAdapter(id)
    \/ \E id \in AdapterIds : StopAdapter(id)
    \/ \E id \in AdapterIds : RemoveAdapter(id)
    \/ \E o \in AdapterObjects : RunLoopEnds(o)
    \/ SupervisorWake
    \/ SupervisorNext
    \/ \E o \in HookOutcomes : SupervisorRestartStart(o)

(***************************************************************************)
(* The DingTalk client as the adapter instance of a Runtime Adapter        *)
(* (src/src/dingtalk_client.py, class MindBotDingTalkClient)               *)
(***************************************************************************)

\* Number of threads the start() calls of the model create
MaxThreads == 3

\* MindBotDingTalkClient has start and stop, and neither initialize, run nor
\* cleanup: these are the hooks RuntimeAdapter finds with hasattr
DingTalkClientHooks == {"start"}

ClientIdle ==
    /\ client_threads = <<>>
    /\ client_thread = 0
    /\ client_running = FALSE

ClientRest == ClientIdle

\* A RuntimeAdapter built by add_adapter around a MindBotDingTalkClient
ClientInit ==
    /\ RuntimeIdle
    /\ is_enabled = TRUE
    /\ hooks = DingTalkClientHooks
    /\ ClientIdle

alive_client_threads == {i \in 1 .. Len(client_threads) : client_threads[i] = "alive"}

\* MindBotDingTalkClient.start, lines 1074-1081: a new daemon thread is
\* created, stored in self.client_thread and started
client_start ==
    /\ Len(client_threads) < MaxThreads
    /\ client_threads' = Append(client_threads, "alive")
    /\ client_thread' = Len(client_threads) + 1
    /\ client_running' = TRUE

\* The adapter task awaits adapter_instance.start(): it raises before the
\* thread is created (credentials, client construction), or it returns with
\* the thread started
ClientStartHook(n, outcome) ==
    /\ start_hook_returns(n, outcome)
    /\ IF outcome = "ok" THEN client_start ELSE UNCHANGED clientVars
    /\ UNCHANGED notRuntimeClient

\* MindBotDingTalkClient.start called by another owner of the client, which
\* starts a client only when it is not running
ClientStart ==
    /\ ~client_running
    /\ client_start
    /\ UNCHANGED notClient

\* MindBotDingTalkClient.stop: self.client is closed and self.client_thread
\* joined for five seconds; joined = FALSE: it is still alive after that
ClientStop(joined) ==
    /\ client_running' = FALSE
    /\ client_threads' =
          IF client_thread # 0 /\ client_threads[client_thread] = "alive" /\ joined
          THEN [client_threads EXCEPT ![client_thread] = "ended"]
          ELSE client_threads
    /\ UNCHANGED <<client_thread, notClient>>

\* _run_client returns: the SDK client's start() has returned or raised
ClientThreadEnds(i) ==
    /\ i \in alive_client_threads
    /\ client_threads' = [client_threads EXCEPT ![i] = "ended"]
    /\ UNCHANGED <<client_thread, client_running, notClient>>

\* A Runtime Adapter around the DingTalk client, its tasks and its threads
ClientNext ==
    \/ Start
    \/ StopBegin
    \/ RestartBegin
    \/ RestartPause
    \/ RestartStart
    \/ \E n \in TaskNums : TaskFirstStep(n)
    \/ \E n \in TaskNums, o \in HookOutcomes : ClientStartHook(n, o)
    \/ \E n \in TaskNums : AdapterHeartbeat(n)
    \/ \E n \in TaskNums : TaskCancelled(n)
    \/ \E n \in TaskNums : CleanupTask(n)
    \/ CancelTasksByScope(PLATFORM)
    \/ ClientStart
    \/ \E j \in BOOLEAN : ClientStop(j)
    \/ \E i \in 1 .. MaxThreads : ClientThreadEnds(i)

(***************************************************************************)
(* TaskManager.shutdown (src/src/runtime/task_manager.py)                  *)
(***************************************************************************)

\* awaited: the tasks handed to asyncio.gather; requested: those of them that
\* had not finished when wrapper.cancel() was called; notified: those whose
\* gather callback has run
ShutdownNotCalled ==
    [pc |-> "not_called", awaited |-> {}, requested |-> {}, notified |-> {}]

TmIdle == tm_shutdown = ShutdownNotCalled

TmInit == TmIdle

TmRest == TmIdle

GatherIgnoresCallbackOrderMutant(t) == TRUE

\* The loop runs a finished task's done callbacks in the order they were
\* added: _cleanup_task, added by create_task, before the callback of the
\* gather that shutdown() makes later
cleanup_ran_first(t) == t.callback = "ran"

\* shutdown() up to its await: every registered wrapper is cancelled, and the
\* registered tasks, if any, are gathered
ShutdownBegin ==
    /\ tm_shutdown.pc = "not_called"
    /\ atasks' = [n \in TaskNums |->
                    IF TaskId(n) \in tasks THEN cancel(atasks[n]) ELSE atasks[n]]
    /\ LET registered == {n \in TaskNums : TaskId(n) \in tasks}
       IN tm_shutdown' =
             [pc |-> IF registered = {} THEN "returned" ELSE "gather",
              awaited |-> registered,
              requested |-> {n \in registered : ~is_done(atasks[n])},
              notified |-> {}]
    /\ rt_event' = Event("shutdown")
    /\ UNCHANGED <<rt_now, tasks, task_counter, is_running, is_enabled, start_time,
                   last_heartbeat, task_wrapper, hooks, ctl, rs, notRuntimeShutdown>>

\* The callback gather added to a task runs once the task is done
GatherCallback(n) ==
    /\ tm_shutdown.pc = "gather"
    /\ n \in tm_shutdown.awaited \ tm_shutdown.notified
    /\ is_done(atasks[n])
    /\ cleanup_ran_first(atasks[n])
    /\ tm_shutdown' = [tm_shutdown EXCEPT !.notified = @ \cup {n}]
    /\ rt_event' = Other
    /\ UNCHANGED <<rt_now, tasks, task_counter, atasks, is_running, is_enabled,
                   start_time, last_heartbeat, task_wrapper, hooks, ctl, rs,
                   notRuntimeShutdown>>

\* Every gathered task has finished: the await returns and so does shutdown()
ShutdownReturn ==
    /\ tm_shutdown.pc = "gather"
    /\ tm_shutdown.notified = tm_shutdown.awaited
    /\ tm_shutdown' = [tm_shutdown EXCEPT !.pc = "returned"]
    /\ rt_event' = Event("shutdown_return")
    /\ UNCHANGED <<rt_now, tasks, task_counter, atasks, is_running, is_enabled,
                   start_time, last_heartbeat, task_wrapper, hooks, ctl, rs,
                   notRuntimeShutdown>>

\* The Task Manager with the tasks of arbitrary clients and one shutdown()
TaskShutdownNext ==
    \/ \E s \in ClientScopeLists : CreateClientTask(s)
    \/ \E n \in TaskNums : TaskFirstStep(n)
    \/ \E n \in TaskNums, o \in HookOutcomes : ClientTaskDone(n, o)
    \/ \E n \in TaskNums : TaskCancelled(n)
    \/ \E n \in TaskNums : CleanupTask(n)
    \/ \E n \in TaskNums : CancelTask(n)
    \/ ShutdownBegin
    \/ \E n \in TaskNums : GatherCallback(n)
    \/ ShutdownReturn

(***************************************************************************)
(* Specifications                                                          *)
(***************************************************************************)

\* The runtime core at rest, for the specifications of the subsystems around it
CoreRest == DedupRest /\ HandlersRest /\ StreamRest /\ RuntimeRest /\ LifecycleRest

\* ... and those subsystems at rest
ExtRest == BusRest /\ SemRest /\ ManagerRest /\ ClientRest /\ TmRest

InitDedup == DedupInit /\ HandlersRest /\ StreamRest /\ RuntimeRest /\ LifecycleRest
             /\ ExtRest
SpecDedup == InitDedup /\ [][DedupNext]_vars

InitStream == StreamInit /\ DedupRest /\ HandlersRest /\ RuntimeRest /\ LifecycleRest
              /\ ExtRest
SpecStream == InitStream /\ [][StreamNext]_vars

InitRuntime == RuntimeInit /\ DedupRest /\ HandlersRest /\ StreamRest /\ LifecycleRest
               /\ ExtRest
SpecRuntime == InitRuntime /\ [][RuntimeNext]_vars

InitTasks == RuntimeRest /\ DedupRest /\ HandlersRest /\ StreamRest /\ LifecycleRest
             /\ ExtRest
SpecTasks == InitTasks /\ [][TasksNext]_vars

InitLifecycle == LifecycleInit /\ DedupRest /\ HandlersRest /\ StreamRest /\ RuntimeRest
                 /\ ExtRest
SpecLifecycle == InitLifecycle /\ [][LifecycleNext]_vars

InitHandlers == HandlersInit /\ StreamRest /\ RuntimeRest /\ LifecycleRest /\ ExtRest
SpecThreads == InitHandlers /\ [][ThreadsNext]_vars
SpecSessions == InitHandlers /\ [][SessionsNext]_vars

InitBus == BusInit /\ CoreRest /\ SemRest /\ ManagerRest /\ ClientRest /\ TmRest
SpecBus == InitBus /\ [][BusNext]_vars
SpecBusLoops == InitBus /\ [][BusLoopsNext]_vars

InitSem == SemInit /\ CoreRest /\ BusRest /\ ManagerRest /\ ClientRest /\ TmRest
SpecSem == InitSem /\ [][SemNext]_vars

\* Every message that is being processed ends, and the event loop runs a
\* waiter that a release has woken
SpecSemFair ==
    /\ SpecSem
    /\ \A m \in Inbound : WF_vars(ProcessAdmit(m))
    /\ \A m \in Inbound : WF_vars(\E o \in ProcessOutcomes : ProcessLeave(m, o))

InitManager == ManagerInit /\ CoreRest /\ BusRest /\ SemRest /\ ClientRest /\ TmRest
SpecManager == InitManager /\ [][ManagerNext]_vars
SpecRegistry == InitManager /\ [][RegistryNext]_vars

InitClient == ClientInit /\ DedupRest /\ HandlersRest /\ StreamRest /\ LifecycleRest
              /\ BusRest /\ SemRest /\ ManagerRest /\ TmRest
SpecClient == InitClient /\ [][ClientNext]_vars

InitTaskShutdown == RuntimeRest /\ DedupRest /\ HandlersRest /\ StreamRest /\ LifecycleRest
                    /\ BusRest /\ SemRest /\ ManagerRest /\ ClientRest /\ TmInit
SpecTaskShutdown == InitTaskShutdown /\ [][TaskShutdownNext]_vars
SpecTaskShutdownFair ==
    /\ SpecTaskShutdown
    /\ \A n \in TaskNums : WF_vars(TaskCancelled(n)) /\ WF_vars(CleanupTask(n))
                            /\ WF_vars(GatherCallback(n))
    /\ WF_vars(ShutdownReturn)

\* The event loop runs every scheduled done callback
SpecTasksFair == SpecTasks /\ \A n \in TaskNums : WF_vars(CleanupTask(n))

(***************************************************************************)
(* Claims about the dedup cache                                            *)
(***************************************************************************)

DuplicateAck == <<"STATUS_OK", "Duplicate message acknowledged">>

Entries(cache) == { cache[i] : i \in 1 .. Len(cache) }

\* What one recording step of process() must have done to the cache.  The
\* entries before the insertion are those of other fingerprints (an entry of
\* the fingerprint itself was expired and removed by the lookup); requireNew
\* says whether the new entry has to survive an eviction in every case.
RecordedCorrectly(s, requireNew) ==
    LET h == MessageHash(slot[s].msg)
        new == [hash |-> h, ts |-> clock]
        before == Entries(Remove(recent_messages, h))
        unexpired == {e \in before : clock - e.ts <= message_ttl} \cup {new}
        after == Entries(recent_messages')
        sameTime == {e \in unexpired : e.ts = clock /\ e.hash # h}
    IN /\ Len(recent_messages') <= max_recent_messages
       /\ Cardinality(after) = Len(recent_messages')
       /\ IF Cardinality(unexpired) > max_recent_messages
          THEN /\ Cardinality(after) <= max_recent_messages \div 2
               /\ after \subseteq unexpired
               /\ \A k \in after, d \in unexpired \ after : k.ts >= d.ts
               /\ IF requireNew \/ Cardinality(sameTime) < max_recent_messages \div 2
                  THEN new \in after
                  ELSE new \notin after
          ELSE after = unexpired

C16_CheckThenRecordIsAtomic ==
    \A h \in Fingerprints : th_passed[h] <= 1

\* C17 as stated: at most one streaming session per fingerprint is active
\* (card created, terminal update not yet sent) in every reachable state.
C17_OneActiveSessionPerFingerprint ==
    \A h \in Fingerprints : sess_active[h] <= 1

\* C19: _is_duplicate_message(h) returns true exactly when h is in the cache
\* with an age strictly below the TTL; an entry of h whose age has reached
\* the TTL is removed and false is returned; the lookup adds no entry and
\* leaves every other entry, and the order of the entries, as they were.
C19_LookupContract ==
    [][lookup'.n # lookup.n =>
        LET h == lookup'.hash
            present == \E i \in 1 .. Len(recent_messages) : recent_messages[i].hash = h
            age == clock - recent_messages[Lookup(recent_messages, h)].ts
        IN /\ lookup'.result = (present /\ age < message_ttl)
           /\ (present /\ age >= message_ttl)
                 => (h \notin Keys(recent_messages') /\ ~lookup'.result)
           /\ Keys(recent_messages') \subseteq Keys(recent_messages)
           /\ Remove(recent_messages', h) = Remove(recent_messages, h)
           /\ (~present \/ age < message_ttl) => recent_messages' = recent_messages
      ]_vars

\* C19 witness: a lookup has found its fingerprint expired, removed it and
\* answered false while other entries were in the cache.
C19_Witness ==
    /\ lookup.removed /\ ~lookup.result
    /\ lookup.hash \notin Keys(recent_messages)
    /\ Len(recent_messages) >= 2

(***************************************************************************)
(* Claims about the streaming reply controller                             *)
(***************************************************************************)

CardCreated == card_instance_id # None

\* C2 as stated: a call of _process_streaming_response in which the card was
\* created makes exactly one terminal renderer call (finished or failed),
\* never zero once it has returned and never two.
C2_ExactlyOneTerminalCall ==
    CardCreated =>
        /\ Len(TerminalCalls) <= 1
        /\ ss_pc = "done" => Len(TerminalCalls) = 1

\* C3 as stated: after a normal completion of the generation stream exactly
\* one update with finished=true and failed=false was sent, it is the last
\* renderer call of the session and it carries the concatenation of all chunks.
C3_FinalUpdateIsLastAndComplete ==
    (ss_pc = "done" /\ CardCreated /\ gen_outcome = "complete") =>
        LET last == renderer_calls[Len(renderer_calls)] IN
        /\ Len(SelectSeq(renderer_calls, LAMBDA c : c.finished /\ ~c.failed)) = 1
        /\ renderer_calls # <<>>
        /\ last.finished /\ ~last.failed
        /\ last.content = Concat(delivered)

FailedCalls == SelectSeq(renderer_calls, LAMBDA c : c.failed)
FinishedCalls == SelectSeq(renderer_calls, LAMBDA c : c.finished)

\* C11 as stated: a session whose task was cancelled after its card was
\* created has attempted a terminal (failed or finished) renderer update by
\* the time the task has ended, so no created card stays without one.
C11_CancelledSessionGetsTerminalUpdate ==
    (ss_pc = "cancelled" /\ CardCreated) => TerminalCalls # <<>>

\* C12 (as amended): when asyncio.wait_for times the streaming operation out,
\* the session sends exactly one failed=true update (carrying the timeout
\* message) and no finished=true update, and returns the timeout message;
\* when that failed=true update itself raises, the generic apology is
\* returned instead.
C12_TimeoutSendsOneFailedUpdate ==
    gen_outcome = "timeout" =>
        /\ FinishedCalls = <<>>
        /\ Len(FailedCalls) <= 1
        /\ ss_pc = "done" =>
              /\ Len(FailedCalls) = 1
              /\ renderer_calls[Len(renderer_calls)] = FailedCalls[1]
              /\ FailedCalls[1].content = TimeoutMessage
              /\ returned = IF FailedCalls[1].outcome = "raise"
                            THEN Apology ELSE TimeoutMessage

\* C12 witness: chunks were flushed, delivery stalled past the limit, the
\* failed update went out and the timeout message was returned.
C12_Witness ==
    /\ ss_pc = "done" /\ gen_outcome = "timeout"
    /\ stime > max_streaming_duration
    /\ Len(renderer_calls) >= 2
    /\ Len(FailedCalls) = 1 /\ FailedCalls[1].outcome = "true"
    /\ returned = TimeoutMessage

\* C12 as stated: after a timeout exactly one failed=true update, no
\* finished=true update, and the timeout message is what is returned.
C12_TimeoutReturnsTimeoutMessage ==
    (ss_pc = "done" /\ gen_outcome = "timeout") =>
        /\ Len(FailedCalls) = 1
        /\ FinishedCalls = <<>>
        /\ returned = TimeoutMessage

\* An exception reached the session from the generation collaborator or from
\* a renderer update other than the failed update itself
RaisedMidStream ==
    \/ gen_outcome = "raise"
    \/ \E i \in 1 .. Len(renderer_calls) :
          /\ ~renderer_calls[i].failed
          /\ renderer_calls[i].outcome \in {"raise", "raise_timeout"}

\* C13 as stated: once the card exists, an exception of the generation
\* collaborator or of a renderer update makes the call send exactly one
\* failed=true update and return the generic apology (the call always
\* returns, whatever the failed update does).
C13_ExceptionSendsOneFailedUpdate ==
    (ss_pc = "done" /\ CardCreated /\ RaisedMidStream) =>
        /\ Len(FailedCalls) = 1
        /\ returned = Apology

GrowingDelays ==
    \A i \in 1 .. Len(card_sleeps) - 1 : card_sleeps[i] < card_sleeps[i + 1]

\* C15 as stated: at most STREAMING_MAX_RETRIES creation attempts; every
\* failed attempt that is followed by another one, whether it raised or
\* returned no id, was followed by a backoff sleep, the delays growing; when
\* all attempts failed the call makes exactly one generation call and exactly
\* one non-streaming reply and no renderer update.
C15_CardCreationBacksOffThenFallsBack ==
    /\ card_attempt <= STREAMING_MAX_RETRIES
    /\ ss_pc = "create" => (Len(card_sleeps) = card_attempt /\ GrowingDelays)
    /\ (ss_pc = "done" /\ ~CardCreated) =>
          /\ card_attempt = STREAMING_MAX_RETRIES
          /\ gen_calls = 1
          /\ static_replies = 1
          /\ renderer_calls = <<>>

(***************************************************************************)
(* Claims about the Runtime Adapter and the Task Manager                   *)
(***************************************************************************)

\* C4 as stated: a stop() on a running adapter whose owning task has not
\* finished leaves that task with a cancellation request.
C4_StopCancelsOwningTask ==
    [][(/\ rt_event' = Event("stop")
        /\ is_running
        /\ task_wrapper # <<>>
        /\ ~is_done(atasks[task_wrapper[2]]))
          => atasks'[task_wrapper[2]].cancel_requested]_vars

\* C5 (as amended): a restart() begun on a running adapter has health_check()
\* false from the end of its stop() to its start(); when its stop() returns
\* normally and the adapter is enabled when its start() runs, it has made
\* exactly one stop() and one start() when it returns, health_check() is true
\* and the adapter runs on a task created by that start().
C5_RestartStopsThenStartsWhenEnabled ==
    [][/\ (ctl' \in {"restart_pause", "restart_start"} /\ rs'.on_running)
            => ~health_check'
       /\ (/\ ctl = "restart_start"
           /\ rt_event' = Event("restart_return")
           /\ rs.on_running
           /\ is_enabled)
            => /\ rs'.stops = 1
               /\ rs'.starts = 1
               /\ health_check'
               /\ is_running'
               /\ task_wrapper' = Wrapper(task_counter)
               /\ task_wrapper' # rs.old
               /\ atasks[task_counter].pos = "absent"
               /\ atasks'[task_counter].pos = "new"
               /\ TaskId(task_counter) \in tasks']_vars

\* C5: a restart() of a running adapter has returned on a fresh task
C5_Witness ==
    /\ rt_event = Event("restart_return")
    /\ rs.on_running
    /\ rs.stops = 1
    /\ rs.starts = 1
    /\ health_check
    /\ task_wrapper = Wrapper(1)
    /\ rs.old = Wrapper(0)

\* C5 as stated: every restart() begun on a running adapter makes its start()
\* and returns with health_check() true on a newly created task.
C5_RestartAlwaysRestarts ==
    [][/\ (ctl = "restart_cleanup" /\ ctl' = "idle" /\ rs.on_running)
            => rs'.starts = 1
       /\ (/\ ctl = "restart_start"
           /\ rt_event' = Event("restart_return")
           /\ rs.on_running)
            => /\ rs'.stops = 1
               /\ rs'.starts = 1
               /\ health_check'
               /\ task_wrapper' = Wrapper(task_counter)]_vars

\* C6: a start() on a running adapter changes nothing; on a stopped, disabled
\* adapter it creates no task and leaves the adapter not running; otherwise it
\* registers exactly one new task of scopes {APPLICATION, PLATFORM}, makes it
\* the owning task, records start_time and last_heartbeat and marks the
\* adapter running.  An adapter task passes the start hook before the run
\* hook (or the heartbeat loop).
C6_StartCases ==
    [][/\ (rt_event' \in {Event("start"), Event("restart_return")}) =>
            /\ is_running =>
                  UNCHANGED <<tasks, task_counter, atasks, is_running, is_enabled,
                              start_time, last_heartbeat, task_wrapper>>
            /\ (~is_running /\ ~is_enabled) =>
                  /\ UNCHANGED <<tasks, task_counter, atasks, task_wrapper>>
                  /\ ~is_running'
            /\ (~is_running /\ is_enabled) =>
                  /\ task_counter' = task_counter + 1
                  /\ TaskId(task_counter) \notin tasks
                  /\ tasks' = tasks \cup {TaskId(task_counter)}
                  /\ \A n \in TaskNums \ {task_counter} : atasks'[n] = atasks[n]
                  /\ atasks[task_counter].pos = "absent"
                  /\ atasks'[task_counter] =
                        [pos |-> "new", kind |-> "platform-adapter",
                         scopes |-> {"application", "platform"},
                         cancel_requested |-> FALSE, outcome |-> "none",
                         callback |-> "none"]
                  /\ task_wrapper' = Wrapper(task_counter)
                  /\ start_time' = rt_now
                  /\ last_heartbeat' = rt_now
                  /\ is_running'
       /\ \A n \in TaskNums :
            (atasks[n].kind = "platform-adapter" /\ atasks'[n].pos # atasks[n].pos) =>
               /\ atasks'[n].pos \in {"start_hook", "run_hook", "loop", "done"}
               /\ atasks'[n].pos = "start_hook" =>
                     atasks[n].pos = "new" /\ "start" \in hooks
               /\ atasks'[n].pos \in {"run_hook", "loop"} =>
                     /\ atasks[n].pos = "start_hook"
                            \/ (atasks[n].pos = "new" /\ "start" \notin hooks)
                     /\ atasks'[n].pos = "run_hook" <=> "run" \in hooks]_vars

\* C6: a start() at a later time has just created the adapter's task
C6_Witness ==
    /\ rt_event = Event("start")
    /\ rt_now = 1
    /\ is_running
    /\ start_time = 1
    /\ last_heartbeat = 1
    /\ task_wrapper = Wrapper(0)
    /\ tasks = {TaskId(0)}
    /\ atasks[0].pos = "new"
    /\ atasks[0].scopes = {"application", "platform"}

\* C9: a task whose done callback has run is not in the registry, a finished
\* task still registered is one whose callback is scheduled, total_tasks
\* counts the unfinished tasks and those, and every finished task's callback
\* eventually runs and removes it.
C9_FinishedTasksLeaveRegistry ==
    /\ [](\A n \in TaskNums :
            /\ atasks[n].callback = "ran" => TaskId(n) \notin tasks
            /\ (TaskId(n) \in tasks /\ is_done(atasks[n]))
                  => atasks[n].callback = "scheduled"
            /\ (atasks[n].pos \notin {"absent", "done"}) => TaskId(n) \in tasks)
    /\ [](total_tasks = Cardinality({n \in TaskNums :
                            \/ atasks[n].pos \notin {"absent", "done"}
                            \/ atasks[n].callback = "scheduled"}))
    /\ \A n \in TaskNums :
            is_done(atasks[n]) ~> (atasks[n].callback = "ran" /\ TaskId(n) \notin tasks)

\* C9: a cancelled task and a failed task have both been removed
C9_Witness ==
    \E n, m \in TaskNums :
        /\ atasks[n].outcome = "cancelled"
        /\ atasks[m].outcome = "error"
        /\ atasks[n].callback = "ran"
        /\ atasks[m].callback = "ran"
        /\ tasks = {}
        /\ total_tasks = 0

\* C10: cancel_tasks_by_scope(S) leaves the registry as it is, puts a
\* cancellation request on every registered, unfinished task whose scopes
\* contain S (cancelling a finished task has no effect) and changes no other
\* task.
C10_CancelByScopeFrame ==
    [][\A S \in TaskScope :
          rt_event' = <<"cancel_tasks_by_scope", S>> =>
             /\ tasks' = tasks
             /\ \A n \in TaskNums :
                   atasks'[n] =
                      IF TaskId(n) \in tasks /\ S \in atasks[n].scopes
                                             /\ ~is_done(atasks[n])
                      THEN [atasks[n] EXCEPT !.cancel_requested = TRUE]
                      ELSE atasks[n]]_vars

\* C10: cancel_tasks_by_scope(ADAPTER) has hit one of two registered tasks
C10_Witness ==
    /\ rt_event = <<"cancel_tasks_by_scope", ADAPTER>>
    /\ \E n, m \in TaskNums :
          /\ {TaskId(n), TaskId(m)} \subseteq tasks
          /\ ADAPTER \in atasks[n].scopes
          /\ atasks[n].cancel_requested
          /\ ADAPTER \notin atasks[m].scopes
          /\ atasks[m].pos = "body"
          /\ ~atasks[m].cancel_requested

(***************************************************************************)
(* Claims about the Lifecycle Manager                                      *)
(***************************************************************************)

Registered(c) == component_status[c].status # "unregistered"
StageOf(c) == StageIndex(component_status[c].stage)

\* C7: the stage loop only moves forward; a component's hook is invoked
\* (its status turns running) only in its own stage and only when every
\* component registered to an earlier stage is completed; the start
\* timestamps of components of earlier stages are not later than those of
\* components of later stages.
C7_StagesInOrder ==
    /\ [][/\ lc_stage' >= lc_stage
          /\ \A c \in ComponentNames :
                (/\ component_status[c].status # "running"
                 /\ component_status'[c].status = "running") =>
                    /\ component_status[c].stage = LifecycleStage[lc_stage]
                    /\ \A d \in ComponentNames :
                          (Registered(d) /\ StageOf(d) < StageOf(c))
                              => component_status[d].status = "completed"]_vars
    /\ [](\A c, d \in ComponentNames :
            (/\ Registered(c) /\ Registered(d)
             /\ component_status[c].start_time # NoTime
             /\ component_status[d].start_time # NoTime
             /\ StageOf(c) < StageOf(d))
                => component_status[c].start_time <= component_status[d].start_time)

\* C7: initialize() has succeeded with a later-stage component started after
\* an earlier-stage one
C7_Witness ==
    /\ is_initialized
    /\ \E c, d \in ComponentNames :
          /\ Registered(c) /\ Registered(d)
          /\ StageOf(c) < StageOf(d)
          /\ component_status[c].status = "completed"
          /\ component_status[d].status = "completed"
          /\ component_status[c].start_time # NoTime
          /\ component_status[c].start_time < component_status[d].start_time

\* C8: once a stage handler or a component hook has raised, initialize() is
\* in its shutdown() or has returned, no component hook is invoked and no
\* stage is entered any more, shutdown has been triggered, is_initialized
\* is false, and the call returns False after the shutdown has run.
C8_FailureAbortsInitialize ==
    /\ [](lc_failure # "none" =>
            /\ lc_pc \in {"shutdown", "returned"}
            /\ is_shutting_down
            /\ ~is_initialized
            /\ lc_pc = "returned" => (lc_result = "false" /\ sd_pc = "done"))
    /\ [][lc_failure # "none" =>
            /\ lc_stage' = lc_stage
            /\ \A c \in ComponentNames :
                  /\ component_status'[c].status # "running"
                  /\ component_status'[c].start_time = component_status[c].start_time]_vars

\* C8: a component hook raised while another component had not been started,
\* and initialize() has returned False
C8_Witness ==
    /\ lc_failure = "component"
    /\ lc_pc = "returned"
    /\ lc_result = "false"
    /\ ~is_initialized
    /\ \E c, d \in ComponentNames :
          /\ Registered(c) /\ Registered(d)
          /\ component_status[c].start_time # NoTime
          /\ component_status[d].start_time = NoTime
          /\ component_status[d].stage # READY
          /\ StageOf(c) <= StageOf(d)

\* C20: shutdown() is idempotent: a call made while is_shutting_down is set,
\* during the first call or after it, changes nothing and runs nothing, and
\* over all calls no shutdown handler and no component's shutdown hook runs
\* more than once.
C20_ShutdownIdempotent ==
    /\ [](\A i, j \in 1 .. Len(sd_log) : sd_log[i] = sd_log[j] => i = j)
    /\ [][(sd_calls' # sd_calls /\ is_shutting_down) =>
             /\ sd_log' = sd_log
             /\ <<sd_pc, sd_idx, is_shutting_down, component_status>>' =
                    <<sd_pc, sd_idx, is_shutting_down, component_status>>
         ]_vars

\* C20 witness: shutdown() was called more than once and the handlers and
\* every component's hook have run, once each.
C20_Witness ==
    /\ sd_calls >= 2
    /\ sd_pc = "done"
    /\ shutdown_handlers >= 1
    /\ Len(components) >= 2
    /\ Len(sd_log) = shutdown_handlers + Len(components)

(***************************************************************************)
(* Claims about shutdown order and the health status                       *)
(***************************************************************************)

\* What a complete shutdown() runs: the shutdown handlers in the order of the
\* list, then the components in the reverse order of the dict's keys
ShutdownOrder ==
    [i \in 1 .. shutdown_handlers |-> <<"handler", i>>]
        \o [i \in 1 .. Len(components) |-> <<"component", Reversed(components)[i]>>]

Started(name) == component_status[name].start_time # NoTime

\* C22: when a lifecycle stage fails, the shutdown it triggers is applied, in
\* reverse order, to the components that had already been started; a
\* component that was still pending when the failure happened does not have
\* its shutdown hook invoked.
C22_FailureShutsDownStartedOnly ==
    (lc_failure # "none" /\ sd_pc = "done") =>
        SelectSeq(sd_log, LAMBDA e : e[1] = "component")
            = [i \in 1 .. Len(SelectSeq(Reversed(components), Started)) |->
                  <<"component", SelectSeq(Reversed(components), Started)[i]>>]

\* "shutting_down if mid-shutdown": a call of shutdown() is running
MidShutdown == sd_pc \in {"handlers", "components"}

\* The overall health as the status query is described
DerivedHealth ==
    IF MidShutdown THEN "shutting_down"
    ELSE IF \E i \in 1 .. Len(components) :
               component_status[components[i]].status = "failed"
         THEN "unhealthy"
    ELSE IF \A i \in 1 .. Len(components) :
               component_status[components[i]].status = "completed"
         THEN "healthy"
    ELSE "initializing"

\* C23: in every reachable state get_health_status() returns "shutting_down"
\* if a shutdown is in progress, else "unhealthy" if any component has status
\* failed, else "healthy" if all components have status completed, else
\* "initializing"; in particular a failed component is reported as
\* "unhealthy" in every state that is not mid-shutdown.  Checked where a
\* caller can make the query with a component registered: before and after
\* initialize() and while it awaits a component hook.
C23_HealthDerivedFromComponents ==
    (components # <<>> /\ lc_pc \in {"not_called", "hook", "returned"})
        => get_health_status = DerivedHealth

(***************************************************************************)
(* Claims about the event bus                                              *)
(***************************************************************************)

\* The calls a finished phase of a dispatch has made: one to each callable of
\* the set the phase found, none to any other
OnceEach(calls, found) == \A h \in Callables : calls[h] = IF h \in found THEN 1 ELSE 0

\* C24: for each event dequeued by the EventBus, every subscriber of the
\* event's type and every named handler is invoked exactly once (the
\* subscribers there are when the event is dequeued, the named handlers
\* there are when the subscribers have returned); an exception raised by any
\* one of them is caught and does not prevent the invocation of the others,
\* does not stop the consumer loop, and does not prevent later events from
\* being dispatched.
C24_DispatchInvokesEachOnce ==
    /\ [](\A l \in Starters :
            /\ \A h \in Callables : loops[l].sub_calls[h] <= 1 /\ loops[l].named_calls[h] <= 1
            /\ (loops[l].event # None /\ loops[l].pc \in {"handlers", "check", "get", "exited"})
                  => OnceEach(loops[l].sub_calls, loops[l].subs)
            /\ (loops[l].event # None /\ loops[l].pc \in {"check", "get", "exited"})
                  => OnceEach(loops[l].named_calls, loops[l].named))
    /\ [][\A l \in Starters :
            /\ (loops[l].pc = "get" /\ loops'[l].pc # "get" /\ event_queue # <<>>)
                  => /\ loops'[l].event = Head(event_queue)
                     /\ loops'[l].subs = subscribers[Head(event_queue)]
            /\ (((loops[l].pc = "get" /\ event_queue # <<>>) \/ loops[l].pc = "subscribers")
                     /\ loops'[l].pc \in {"handlers", "check"})
                  => loops'[l].named = event_handlers
            /\ (loops'[l].raised /\ ~loops[l].raised)
                  => /\ loops'[l].pc = loops[l].pc
                     /\ loops[l].todo \ loops'[l].todo \in {{}} \cup {{h} : h \in Callables}
                     /\ event_queue' = event_queue
            /\ (loops[l].pc # "exited" /\ loops'[l].pc = "exited")
                  => ~bus_running /\ loops[l].pc = "check"
       ]_vars

\* C24 witness: two events have been handled, handlers raised during both,
\* and the second event reached both subscribers of its type and both named
\* handlers.
C24_Witness ==
    /\ handled = 2
    /\ bus_hist.raised_before
    /\ \E l \in Starters :
          /\ loops[l].pc = "check"
          /\ loops[l].raised
          /\ loops[l].subs = Callables
          /\ loops[l].named = Callables
          /\ OnceEach(loops[l].sub_calls, Callables)
          /\ OnceEach(loops[l].named_calls, Callables)

\* C25: the EventBus queue is bounded: its length never exceeds a fixed
\* capacity under any sequence of publish calls, and publish on a full queue
\* blocks or fails instead of letting the queue grow.  With no consumer
\* running, a capacity that the publish calls of the model can exceed keeps
\* the queue below the number of those calls.
C25_QueueBounded == Len(event_queue) < MaxEvents

\* C26: at most one consumer loop (_process_events) of an EventBus is active
\* at any time, for every sequence of start() and stop() calls.
C26_SingleConsumerLoop == Cardinality(active_loops) <= 1

(***************************************************************************)
(* Claims about the bounded concurrency of a handler                       *)
(***************************************************************************)

HeartbeatStale == last_heartbeat # NoTime /\ rt_now - last_heartbeat > heartbeat_timeout

\* C28: while a RuntimeAdapter is running and its owning task is alive,
\* last_heartbeat is refreshed by the run loop at a steady cadence, both for
\* wrapped adapters that have a run hook and for those that have none, so
\* health_check() never returns false because of heartbeat age while the run
\* loop is alive.  Stated for the owning task that is inside the wrapped
\* adapter's run hook.
C28_HeartbeatFreshWhileAlive ==
    \A n \in TaskNums :
        (is_running /\ task_wrapper = Wrapper(n) /\ atasks[n].pos = "run_hook")
            => ~HeartbeatStale

\* C29: when the run loop of a running adapter ends unexpectedly,
\* health_check() returns false at the next supervisor pass and
\* _health_check_loop invokes restart() for that adapter in that pass; a
\* health-check or restart error for one adapter does not stop the
\* supervisor from checking the other adapters or from running later passes.
\* At the end of a pass every adapter whose run loop had ended when the pass
\* began, and which is still registered and still down, has had restart()
\* invoked in the pass.
C29_CrashedAdapterRestartedInPass ==
    [][(supervisor.pc # "sleep" /\ supervisor'.pc = "sleep") =>
          \A o \in supervisor.due :
              (o \in registered_objects /\ adapter_state[o] = "crashed")
                  => o \in supervisor.restarted
      ]_vars

(***************************************************************************)
(* Claims about the adapter registry                                       *)
(***************************************************************************)

\* C30: after any sequence of add_adapter, remove_adapter, start_adapter and
\* stop_adapter calls, each adapter_id has exactly one RuntimeAdapter:
\* add_adapter with an adapter_id that is already registered never leaves
\* the earlier RuntimeAdapter for that id alive with a running task outside
\* the registry, and stats total_adapters equals the number of registered
\* records.
C30_OneRuntimeAdapterPerId ==
    /\ \A i, j \in 1 .. Len(records) : records[i].id = records[j].id => i = j
    /\ \A o \in AdapterObjects : adapter_state[o] = "running" => o \in registered_objects
    /\ total_adapters = Len(records)

(***************************************************************************)
(* Claims about the owning task of a Runtime Adapter                       *)
(***************************************************************************)

\* The tasks start() created for the adapter that have not finished
alive_adapter_tasks ==
    {n \in TaskNums : atasks[n].kind = AdapterKind /\ ~is_done(atasks[n])}

\* C31 as stated: at most one task of the adapter is alive at any time.
C31_OneOwningTaskAlive == Cardinality(alive_adapter_tasks) <= 1

\* C32 as stated: while the adapter's current owning task runs (it has not
\* finished and nobody asked for its cancellation), is_running is true: no
\* older task's `finally` has cleared it.
C32_RunningAgreesWithOwningTask ==
    (/\ task_wrapper # <<>>
     /\ ~is_done(atasks[task_wrapper[2]])
     /\ ~atasks[task_wrapper[2]].cancel_requested) => is_running

(***************************************************************************)
(* Claims about what the supervisor starts                                 *)
(***************************************************************************)

\* C33 as stated: an adapter stopped through stop_adapter is started again
\* only by a caller's request (start_adapter here), never by a step of the
\* health supervisor.
C33_StoppedStaysStopped ==
    [][\A o \in AdapterObjects :
          (adapter_state[o] = "stopped" /\ adapter_state'[o] = "running")
              => supervisor'.pc = supervisor.pc
      ]_vars

(***************************************************************************)
(* Claims about add_adapter                                                *)
(***************************************************************************)

\* C34: when the wrapped adapter's initialize hook raises, add_adapter has
\* invoked it exactly once, returns False, stores no record, leaves
\* total_adapters as it was and changes neither the records, nor the tasks,
\* nor the running state of any adapter.
C34_FailedInitializeAddsNothing ==
    [][add_call'.outcome = "initialize_raises" =>
          /\ add_call'.initialize_calls = 1
          /\ add_call'.returned = FALSE
          /\ runtime_adapters' = runtime_adapters
          /\ total_adapters' = total_adapters
          /\ adapter_state' = adapter_state
          /\ UNCHANGED <<tasks, atasks, is_running>>
      ]_vars

\* C34: an add_adapter call whose initialize hook raised has returned False
\* for an id that is not registered while another adapter is running
C34_Witness ==
    /\ add_call.outcome = "initialize_raises"
    /\ add_call.initialize_calls = 1
    /\ ~add_call.returned
    /\ add_call.id \notin registered_ids
    /\ \E o \in registered_objects : adapter_state[o] = "running"

(***************************************************************************)
(* Claims about the partial updates of a streaming session                 *)
(***************************************************************************)

\* A renderer call that is neither finished nor failed
IsPartial(call) == ~call.finished /\ ~call.failed

\* C35: every partial update carries the whole accumulated content with
\* finished=false and failed=false; last_update_length and last_update_time
\* change only in the step of a partial update that returned true, and keep
\* their values when it returned false or raised; last_update_length never
\* exceeds the accumulated length and never decreases.
C35_PartialUpdateBookkeeping ==
    /\ [](last_update_length <= Len(accumulated_content))
    /\ [][/\ last_update_length' >= last_update_length
          /\ (ss_pc = "cb_update" /\ ss_pc' = "gen") =>
                /\ Len(renderer_calls') = Len(renderer_calls) + 1
                /\ LET call == renderer_calls'[Len(renderer_calls')]
                   IN /\ IsPartial(call)
                      /\ call.content = accumulated_content
                      /\ call.content = Concat(delivered)
                      /\ call.outcome # "true" =>
                            UNCHANGED <<last_update_length, last_update_time>>
                      /\ call.outcome = "true" =>
                            last_update_length' = Len(call.content)
          /\ (last_update_length' # last_update_length
                \/ last_update_time' # last_update_time) =>
                /\ ss_pc = "cb_update"
                /\ Len(renderer_calls') = Len(renderer_calls) + 1
                /\ renderer_calls'[Len(renderer_calls')].outcome = "true"
         ]_vars

\* C35: a partial update failed and left the flushed length behind the
\* accumulated content, and a later one succeeded
C35_Witness ==
    /\ Len(renderer_calls) >= 2
    /\ IsPartial(renderer_calls[1]) /\ renderer_calls[1].outcome # "true"
    /\ IsPartial(renderer_calls[2]) /\ renderer_calls[2].outcome = "true"
    /\ last_update_length = Len(renderer_calls[2].content)
    /\ last_update_length > Len(renderer_calls[1].content)

(***************************************************************************)
(* Claims about the client thread of an adapter                            *)
(***************************************************************************)

\* C36 as stated: at most one client thread of the adapter is alive.
C36_OneClientThreadAlive == Cardinality(alive_client_threads) <= 1

(***************************************************************************)
(* Claims about component status and initialize()                          *)
(***************************************************************************)

\* C37 as stated, in the case it singles out: a component's status only
\* moves pending -> running -> completed or running -> failed, so a component
\* whose status is failed is not reported as completed (or anything else) by
\* any later operation, the shutdown that follows the failure included.
C37_FailedStaysFailed ==
    [][\A c \in ComponentNames :
          component_status[c].status = "failed"
              => component_status'[c].status = "failed"
      ]_vars

\* C38 as stated: when initialize() returns True, every registered component,
\* whatever stage it was registered to, has status completed and
\* get_health_status() is "healthy".
C38_InitializedMeansAllCompleted ==
    [][(lc_result # "true" /\ lc_result' = "true") =>
          /\ \A c \in ComponentNames :
                component_status'[c].status # "unregistered"
                    => component_status'[c].status = "completed"
          /\ get_health_status' = "healthy"
      ]_vars

(***************************************************************************)
(* Claims about TaskManager.shutdown                                       *)
(***************************************************************************)

\* shutdown() returns in this step
ShutdownReturns == tm_shutdown.pc # "returned" /\ tm_shutdown'.pc = "returned"

\* What shutdown() does achieve: when it returns, every task that was
\* registered when it was called has finished, as cancelled when it had not
\* finished before the call, its cleanup callback has run and it is no longer
\* in the registry; while shutdown() waits, every task it gathered is
\* eventually out of the registry and shutdown() returns.
ShutdownWaitsForGatheredTasks ==
    /\ [][ShutdownReturns =>
             \A n \in tm_shutdown'.awaited :
                /\ is_done(atasks'[n])
                /\ atasks'[n].callback = "ran"
                /\ TaskId(n) \notin tasks'
                /\ n \in tm_shutdown'.requested => atasks'[n].outcome = "cancelled"
         ]_vars
    /\ (tm_shutdown.pc = "gather") ~> (tm_shutdown.pc = "returned")

\* C39 as stated: when shutdown() returns, every task that was registered
\* when it was called has finished and its cleanup callback has run, and the
\* registry is empty.
C39_RegistryEmptyAfterShutdown ==
    [][ShutdownReturns =>
          /\ \A n \in tm_shutdown'.awaited :
                is_done(atasks'[n]) /\ atasks'[n].callback = "ran"
          /\ tasks' = {}
      ]_vars


(***************************************************************************)
(* The sequence of updates the renderer sees in one streaming session      *)
(***************************************************************************)

\* a is a prefix of b
IsPrefix(a, b) == Len(a) <= Len(b) /\ SubSeq(b, 1, Len(a)) = a

\* No partial update follows a terminal one
NoPartialAfterTerminal ==
    \A i, j \in DOMAIN renderer_calls :
        i < j /\ IsTerminal(renderer_calls[i]) => ~IsPartial(renderer_calls[j])

\* The contents of successive partial updates are prefixes of one another
PartialsGrow ==
    \A i, j \in DOMAIN renderer_calls :
        i < j /\ IsPartial(renderer_calls[i]) /\ IsPartial(renderer_calls[j])
            => IsPrefix(renderer_calls[i].content, renderer_calls[j].content)

====
